---- MODULE Spec2Model ----
(***************************************************************************)
(* A model of comfyui_extension.py: ComfyUIExtension.effect, the workflow  *)
(* graph it patches (populate_workflow), the remote job protocol it drives *)
(* (upload, submit, poll, fetch) and the pad / crop / grid placement       *)
(* geometry.                                                               *)
(*                                                                         *)
(* Conventions.  Python's None is the string "None" where the value is a   *)
(* path or a handle, and a record with isNone = TRUE where it is an option.*)
(* Floats that are halves of integers (the pad offsets) are kept doubled;  *)
(* the placement, which multiplies by 1 + gap/100, is kept in hundredths.  *)
(* random.randint is a choice over its two end points and values between.  *)
(***************************************************************************)
EXTENDS Integers, Sequences, FiniteSets, TLC

\* ---- bounds of the model ------------------------------------------------
MaxBatch == 2          \* largest --batch drawn
MaxPending == 2        \* most history responses without the handle, per job
MaxSide == 4           \* largest exported raster side, in pixels
MaxIndex == 5          \* largest batch index handed to insert_result_image
MaxColumns == 4        \* largest --columns drawn
MaxCalls == 2          \* most direct calls of the client in one run

\* ---- program constants --------------------------------------------------
RandSeedHigh == 1000000000

\* ---- Python helpers ------------------------------------------------------
Max(a, b) == IF a >= b THEN a ELSE b

\* int(n / 2) for an integer n: true division, then truncation toward zero.
IntHalf(n) == IF n >= 0 THEN n \div 2 ELSE -((-n) \div 2)

\* int(n / d) for n >= 0, d > 0.
IntDiv(n, d) == n \div d

\* str(int) on the node-IDs the model draws.
IdInts == {0, 16, 19, 36, 38, 40, 99}
StrOfInt(n) ==
  CASE n = 0 -> "0"
    [] n = 16 -> "16"
    [] n = 19 -> "19"
    [] n = 36 -> "36"
    [] n = 38 -> "38"
    [] n = 40 -> "40"
    [] n = 99 -> "99"

\* int(str) on the same strings.
IntOfStr(s) == CHOOSE n \in IdInts : StrOfInt(n) = s

\* d[k] = v on a dict modelled as a function: k is added when it is new.
DictSet(d, k, v) == [x \in (DOMAIN d) \cup {k} |-> IF x = k THEN v ELSE d[x]]

\* d.update(u)
DictUpdate(d, u) ==
  [x \in (DOMAIN d) \cup (DOMAIN u) |-> IF x \in DOMAIN u THEN u[x] ELSE d[x]]

\* workflow_json[node]["inputs"][field] = v
SetInput(wf, node, field, v) ==
  [wf EXCEPT ![node] = [@ EXCEPT !.inputs = DictSet(@, field, v)]]

\* ---- the workflow graph a template file holds ---------------------------
\* The node-IDs of test_comfyui_extension.py's WORKFLOW_JSON (16, 19, 36, 38),
\* a second LoadImage node (40), a SaveImage node (9) and a node keyed "0".
LoadedWorkflow ==
  [n \in {"0", "9", "16", "19", "36", "38", "40"} |->
    CASE n = "0" ->
           [class_type |-> "Note", inputs |-> [text |-> "note"]]
      [] n = "9" ->
           [class_type |-> "SaveImage",
            inputs |-> [filename_prefix |-> "img2img", images |-> <<"8", 0>>]]
      [] n = "16" ->
           [class_type |-> "CLIPTextEncodeSDXL",
            inputs |-> [text_g |-> "a flourish", text_l |-> "a flourish",
                        clip |-> <<"14", 1>>]]
      [] n = "19" ->
           [class_type |-> "CLIPTextEncode",
            inputs |-> [text |-> "blurry", clip |-> <<"14", 1>>]]
      [] n = "36" ->
           [class_type |-> "KSampler",
            inputs |-> [seed |-> 1234, steps |-> 20, cfg |-> 55, denoise |-> 75,
                        sampler_name |-> "dpmpp_2m_sde_gpu",
                        scheduler |-> "exponential",
                        model |-> <<"14", 0>>, latent_image |-> <<"39", 0>>]]
      [] n = "38" ->
           [class_type |-> "LoadImage",
            inputs |-> [image |-> "path1.png", upload |-> "image"]]
      [] n = "40" ->
           [class_type |-> "LoadImage",
            inputs |-> [image |-> "mask1.png", upload |-> "image"]]]

\* ---- configuration --------------------------------------------------------
Variants ==
  {"basic", "img2img", "masked", "pose", "custom1", "custom2", "custom3", "custom4"}

\* The variants populate_workflow treats as having an image input.
ImageVariants == Variants \ {"basic"}

\* Which per-variant options add_arguments defines under the name
\* get_workflow_option reads, "<variant>_<option>". The pose input is defined
\* as --pose_input_id, while the name read is pose_pose_input_id: no variant
\* has it.
DefinedOptions(variant) ==
  {"positive_id", "negative_id", "ksampler_id"}
    \cup (IF variant \in ImageVariants THEN {"image_input_id"} ELSE {})
    \cup (IF variant = "masked" THEN {"mask_input_id"} ELSE {})

\* The selected objects, by id; the marks are substrings of the id.
Objects == {"rect1", "rect__mask", "rect__pose"}
HasMaskMark(id) == id = "rect__mask"
HasPoseMark(id) == id = "rect__pose"

VARIABLES
  options,        \* self.options, the per-variant IDs resolved for the variant
  svg,            \* the document: the selection and each object's raster size
  server,         \* the remote server: the answers it can give in this run
  workflow_json,  \* the loaded graph, <<>> before it is loaded
  geom,           \* self.longest_side, self.exported_width, self.exported_height
  tempdir,        \* "None", "exists" or "removed"
  pc,             \* the statement effect is about to execute
  i,              \* the batch loop's index
  error,          \* the exception that ended the run, "None" without one
  pads,           \* what process_image saved in this iteration, by input kind
  prompt_id,      \* the handle of the submitted job, "None" without one
  pending,        \* history responses still to come without the handle
  pending0,       \* pending as it was when the job was submitted
  history,        \* the last history response
  calls,          \* requests made in this iteration, by endpoint
  uploaded,       \* the last response of POST /upload/image in this iteration
  retried,        \* what retry_request did in the last get_history call
  reported,       \* the messages inkex.errormsg has shown, by their source
  result,         \* the raster written to result_image.png
  crop_box,       \* the rectangle _process_result_image cropped
  inserted        \* the image elements appended to the document, in order

vars ==
  <<options, svg, server, workflow_json, geom, tempdir, pc, i, error, pads, prompt_id,
    pending, pending0, history, calls, uploaded, retried, reported, result, crop_box, inserted>>

\* ---- values that stand for "nothing yet" --------------------------------
NoPad == [side |-> -1, x |-> 0, y |-> 0, w |-> 0, h |-> 0]
NoPads == [image |-> NoPad, mask |-> NoPad, pose |-> NoPad]
NoCalls == [upload |-> 0, prompt |-> 0, history |-> 0, view |-> 0, sleep |-> 0]
NoHistory == [has_key |-> FALSE, images |-> <<>>]
NoResult == [path |-> "None", w |-> 0, h |-> 0]
NoBox == <<0, 0, 0, 0>>
NoUpload == [status |-> -1, json |-> FALSE, has_name |-> FALSE, name |-> "",
             has_subfolder |-> FALSE, subfolder |-> ""]
NoRetry == [fails |-> 0, then |-> "ok", attempts |-> 0, sleeps |-> <<>>,
            raises |-> "None", response |-> FALSE]

\* ---- options -------------------------------------------------------------
\* get_workflow_option: getattr(self.options, f"{workflow_select}_{option}", None)
get_workflow_option(option) ==
  IF option \in DefinedOptions(options.workflow_select)
  THEN [isNone |-> FALSE, v |-> options[option]]
  ELSE [isNone |-> TRUE, v |-> 0]

\* get_workflow_path: custom2 reads options.custom_workflow_json_path, an
\* attribute add_arguments never defines.
get_workflow_path ==
  IF options.workflow_select = "custom2"
  THEN [raises |-> "AttributeError", v |-> ""]
  ELSE [raises |-> "None", v |-> options.workflow_json_path]

\* ---- the selection --------------------------------------------------------
get_image_objects ==
  {id \in svg.selection : ~HasMaskMark(id) /\ ~HasPoseMark(id)}

\* None (here the empty set: both are falsy in export_objects) when the ID is 0.
get_mask_objects ==
  IF get_workflow_option("mask_input_id") = [isNone |-> FALSE, v |-> 0]
  THEN {}
  ELSE {id \in svg.selection : HasMaskMark(id)}

get_pose_objects ==
  IF get_workflow_option("pose_input_id") = [isNone |-> FALSE, v |-> 0]
  THEN {}
  ELSE {id \in svg.selection : HasMaskMark(id)}

\* The size of the PNG inkscape exports for a set of objects: the model's
\* selections hold one object of each kind.
ExportSize(objects) == svg.size[CHOOSE id \in objects : TRUE]

\* ---- geometry: process_image ---------------------------------------------
\* A pad that pastes the source at the canvas's top-left corner.
process_imageTopLeft(w, h, main_input_image, g) ==
  LET g2 == IF main_input_image
            THEN [longest_side |-> Max(w, h),
                  exported_width |-> w, exported_height |-> h]
            ELSE g
  IN [geom |-> g2,
      pad |-> [side |-> g2.longest_side, x |-> 0, y |-> 0, w |-> w, h |-> h]]

\* process_image if a mask or pose got a canvas of its own longest side.
process_imageOwnSide(w, h, main_input_image, g) ==
  LET longest_side == Max(w, h)
      g2 == IF main_input_image
            THEN [longest_side |-> longest_side,
                  exported_width |-> w, exported_height |-> h]
            ELSE g
  IN [geom |-> g2,
      pad |-> [side |-> longest_side, x |-> IntHalf(longest_side - w),
               y |-> IntHalf(longest_side - h), w |-> w, h |-> h]]

\* process_image if every pad recorded its source's geometry.
process_imageAlwaysRecords(w, h, main_input_image, g) ==
  LET longest_side == Max(w, h)
      g2 == [longest_side |-> longest_side,
             exported_width |-> w, exported_height |-> h]
      side == g2.longest_side
  IN [geom |-> g2,
      pad |-> [side |-> side, x |-> IntHalf(side - w), y |-> IntHalf(side - h),
               w |-> w, h |-> h]]

\* The geometry process_image leaves in self, and the canvas it saves: a square
\* of side self.longest_side with the source pasted at (int(offset_x),
\* int(offset_y)).
process_image(w, h, main_input_image, g) ==
  LET longest_side == Max(w, h)
      g2 == IF main_input_image
            THEN [longest_side |-> longest_side,
                  exported_width |-> w, exported_height |-> h]
            ELSE g
      side == g2.longest_side
  IN [geom |-> g2,
      pad |-> [side |-> side, x |-> IntHalf(side - w), y |-> IntHalf(side - h),
               w |-> w, h |-> h]]

\* ---- the upload endpoint --------------------------------------------------
\* What POST /upload/image can answer. status 0 is a request that got no
\* response (connection error, timeout).
UploadResponses ==
  { [status |-> 0, json |-> FALSE, has_name |-> FALSE, name |-> "",
     has_subfolder |-> FALSE, subfolder |-> ""],
    [status |-> 500, json |-> FALSE, has_name |-> FALSE, name |-> "",
     has_subfolder |-> FALSE, subfolder |-> ""],
    [status |-> 201, json |-> TRUE, has_name |-> TRUE, name |-> "up.png",
     has_subfolder |-> FALSE, subfolder |-> ""],
    [status |-> 204, json |-> FALSE, has_name |-> FALSE, name |-> "",
     has_subfolder |-> FALSE, subfolder |-> ""],
    [status |-> 200, json |-> FALSE, has_name |-> FALSE, name |-> "",
     has_subfolder |-> FALSE, subfolder |-> ""],
    [status |-> 200, json |-> TRUE, has_name |-> FALSE, name |-> "",
     has_subfolder |-> TRUE, subfolder |-> "in"],
    [status |-> 200, json |-> TRUE, has_name |-> TRUE, name |-> "up.png",
     has_subfolder |-> FALSE, subfolder |-> ""],
    [status |-> 200, json |-> TRUE, has_name |-> TRUE, name |-> "up.png",
     has_subfolder |-> TRUE, subfolder |-> ""],
    [status |-> 200, json |-> TRUE, has_name |-> TRUE, name |-> "up.png",
     has_subfolder |-> TRUE, subfolder |-> "in"] }

\* An upload that takes a 200 answer without a name as no path, without raising.
upload_fileNameOptional(resp) ==
  IF resp.status = 0 \/ resp.status >= 400
  THEN [raises |-> "RequestException", path |-> "None"]
  ELSE IF resp.status = 200 /\ ~resp.json
  THEN [raises |-> "JSONDecodeError", path |-> "None"]
  ELSE IF resp.status = 200 /\ resp.has_name
  THEN [raises |-> "None", path |-> resp.name]
  ELSE [raises |-> "None", path |-> "None"]

\* An upload that joins the subfolder whenever the answer has the key.
upload_fileJoinsEmpty(resp) ==
  IF resp.status = 0 \/ resp.status >= 400
  THEN [raises |-> "RequestException", path |-> "None"]
  ELSE IF resp.status = 200
  THEN IF ~resp.json
       THEN [raises |-> "JSONDecodeError", path |-> "None"]
       ELSE IF ~resp.has_name
       THEN [raises |-> "ValueError", path |-> "None"]
       ELSE IF resp.has_subfolder
       THEN [raises |-> "None", path |-> resp.subfolder \o "/" \o resp.name]
       ELSE [raises |-> "None", path |-> resp.name]
  ELSE [raises |-> "None", path |-> "None"]

\* upload_file on one response: the exception it raises, or the path it returns.
upload_file(resp) ==
  IF resp.status = 0 \/ resp.status >= 400
  THEN [raises |-> "RequestException", path |-> "None"]
  ELSE IF resp.status = 200
  THEN IF ~resp.json
       THEN [raises |-> "JSONDecodeError", path |-> "None"]
       ELSE IF ~resp.has_name
       THEN [raises |-> "ValueError", path |-> "None"]
       ELSE IF resp.has_subfolder /\ resp.subfolder # ""
       THEN [raises |-> "None", path |-> resp.subfolder \o "/" \o resp.name]
       ELSE [raises |-> "None", path |-> resp.name]
  ELSE [raises |-> "None", path |-> "None"]

\* load_image: the padded file exists, so open() succeeds and the file is sent.
load_image(resp) == upload_file(resp)

\* ---- exceptions ----------------------------------------------------------
\* An exception that leaves effect without passing the finally clause.
RaisePastFinally(e) == error' = e /\ pc' = "done"

\* An exception that is caught inside the loop, which then starts over.
RaiseAndCarryOn(e) == error' = e /\ pc' = "loop"

\* An exception inside effect's try block: control goes to the finally clause.
Raise(e) == error' = e /\ pc' = "finally"

\* ---- effect: setup, validate_parameters, mkdtemp -------------------------
\* str.strip() on the URLs the model draws: " " is the one made of whitespace.
Strip(s) == IF s = " " THEN "" ELSE s

\* A validation that checks the required values and not the selection.
validate_parametersNoSelection ==
  IF get_workflow_path.raises # "None" THEN get_workflow_path.raises
  ELSE IF options.positive_prompt = "" THEN "ValueError"
  ELSE IF options.negative_prompt = "" THEN "ValueError"
  ELSE IF get_workflow_path.v = "" THEN "ValueError"
  ELSE IF Strip(options.api_url) = "" THEN "ValueError"
  ELSE "None"

\* validate_parameters: the first required value that is falsy, else the
\* selection check.
validate_parameters ==
  IF get_workflow_path.raises # "None" THEN get_workflow_path.raises
  ELSE IF options.positive_prompt = "" THEN "ValueError"
  ELSE IF options.negative_prompt = "" THEN "ValueError"
  ELSE IF get_workflow_path.v = "" THEN "ValueError"
  ELSE IF Strip(options.api_url) = "" THEN "ValueError"
  ELSE IF svg.selection = {} /\ options.workflow_select # "basic" THEN "ValueError"
  ELSE "None"

EffectBegin ==
  /\ pc = "begin"
  /\ IF validate_parameters # "None"
     THEN /\ error' = validate_parameters
          /\ reported' = IF validate_parameters = "ValueError"
                         THEN reported \cup {"validate_parameters"} ELSE reported
          /\ pc' = "done"
          /\ UNCHANGED tempdir
     ELSE /\ tempdir' = "exists"
          /\ pc' = "load"
          /\ UNCHANGED <<error, reported>>
  /\ UNCHANGED <<options, svg, server, workflow_json, geom, i, pads, prompt_id, pending,
                 pending0, history, calls, uploaded, retried, result, crop_box, inserted>>

\* get_workflow_path and load_workflow_json: the file holds the graph, or it
\* is missing, or it is not JSON.
LoadWorkflow ==
  /\ pc = "load"
  /\ \E file \in {"ok", "FileNotFoundError", "JSONDecodeError"} :
       IF file = "ok"
       THEN /\ workflow_json' = LoadedWorkflow
            /\ pc' = "loop"
            /\ UNCHANGED <<error, reported>>
       ELSE /\ Raise(file)
            /\ reported' = reported \cup {"load_workflow_json"}
            /\ UNCHANGED workflow_json
  /\ UNCHANGED <<options, svg, server, geom, tempdir, i, pads, prompt_id, pending,
                 pending0, history, calls, uploaded, retried, result, crop_box, inserted>>

\* A batch loop that runs once more than --batch asks for.
LoopHeadOneMore ==
  /\ pc = "loop"
  /\ IF i <= options.batch
     THEN /\ pc' = "pw_positive"
          /\ pads' = NoPads
          /\ calls' = NoCalls
          /\ uploaded' = NoUpload
          /\ retried' = NoRetry
          /\ UNCHANGED reported
          /\ prompt_id' = "None"
          /\ history' = NoHistory
          /\ result' = NoResult
          /\ crop_box' = NoBox
          /\ pending' = 0
          /\ pending0' = 0
     ELSE /\ pc' = "finally"
          /\ UNCHANGED <<pads, calls, uploaded, retried, reported, prompt_id, history, result, crop_box,
                         pending, pending0>>
  /\ UNCHANGED <<options, svg, server, workflow_json, geom, tempdir, i, error, inserted>>

\* for i in range(0, self.options.batch)
LoopHead ==
  /\ pc = "loop"
  /\ IF i < options.batch
     THEN /\ pc' = "pw_positive"
          /\ pads' = NoPads
          /\ calls' = NoCalls
          /\ uploaded' = NoUpload
          /\ retried' = NoRetry
          /\ UNCHANGED reported
          /\ prompt_id' = "None"
          /\ history' = NoHistory
          /\ result' = NoResult
          /\ crop_box' = NoBox
          /\ pending' = 0
          /\ pending0' = 0
     ELSE /\ pc' = "finally"
          /\ UNCHANGED <<pads, calls, uploaded, retried, reported, prompt_id, history, result, crop_box,
                         pending, pending0>>
  /\ UNCHANGED <<options, svg, server, workflow_json, geom, tempdir, i, error, inserted>>

\* ---- populate_workflow ----------------------------------------------------
\* A prompt write that fills text and text_l and clears text_g.
SetPromptClearsTextG(wf, node, text) ==
  SetInput(SetInput(SetInput(wf, node, "text", text), node, "text_l", text),
           node, "text_g", "")

\* The three text fields of one prompt node.
SetPrompt(wf, node, text) ==
  SetInput(SetInput(SetInput(wf, node, "text", text), node, "text_l", text),
           node, "text_g", text)

\* workflow_json[positive_id]["inputs"]["text" | "text_l" | "text_g"] = ...
PwPositive ==
  /\ pc = "pw_positive"
  /\ LET positive_id == StrOfInt(get_workflow_option("positive_id").v) IN
       IF positive_id \in DOMAIN workflow_json
       THEN /\ workflow_json' =
                 SetPrompt(workflow_json, positive_id, options.positive_prompt)
            /\ pc' = "pw_negative"
            /\ UNCHANGED error
       ELSE /\ Raise("KeyError")
            /\ UNCHANGED workflow_json
  /\ UNCHANGED <<options, svg, server, geom, tempdir, i, pads, prompt_id, pending,
                 pending0, history, calls, uploaded, retried, reported, result, crop_box, inserted>>

\* workflow_json[negative_id]["inputs"]["text" | "text_l" | "text_g"] = ...
PwNegative ==
  /\ pc = "pw_negative"
  /\ LET negative_id == StrOfInt(get_workflow_option("negative_id").v) IN
       IF negative_id \in DOMAIN workflow_json
       THEN /\ workflow_json' =
                 SetPrompt(workflow_json, negative_id, options.negative_prompt)
            /\ pc' = "pw_sampler"
            /\ UNCHANGED error
       ELSE /\ Raise("KeyError")
            /\ UNCHANGED workflow_json
  /\ UNCHANGED <<options, svg, server, geom, tempdir, i, pads, prompt_id, pending,
                 pending0, history, calls, uploaded, retried, reported, result, crop_box, inserted>>

\* random.randint(a, b): a <= N <= b, both ends included.
RandInt(a, b) == {a, b - 1, b}

\* A seed expression that keeps the caller's seed whatever its sign.
SeedValuesKeepsSeed(seed) == {seed}

\* self.options.seed if self.options.seed > 0 else random.randint(0, 1000000000)
SeedValues(seed) == IF seed > 0 THEN {seed} ELSE RandInt(0, RandSeedHigh)

\* A sampler write that assigns a new inputs dict instead of updating it.
SamplerUpdateReplaces(inputs, seed) ==
  [cfg |-> options.cfg_scale, denoise |-> options.denoise,
   steps |-> options.steps, seed |-> seed]

\* workflow_json[ksampler_id]["inputs"].update({cfg, denoise, steps, seed})
SamplerUpdate(inputs, seed) ==
  DictUpdate(inputs, [cfg |-> options.cfg_scale, denoise |-> options.denoise,
                      steps |-> options.steps, seed |-> seed])

\* A sampler write that draws a seed in the first iteration only.
PwSamplerDrawsOnce ==
  /\ pc = "pw_sampler"
  /\ LET ksampler_id == StrOfInt(get_workflow_option("ksampler_id").v) IN
       IF ksampler_id \in DOMAIN workflow_json
       THEN \E seed \in (IF i = 0 THEN SeedValues(options.seed)
                          ELSE {workflow_json[ksampler_id].inputs.seed}) :
              /\ workflow_json' =
                   [workflow_json EXCEPT ![ksampler_id].inputs =
                      SamplerUpdate(@, seed)]
              /\ pc' = "pw_image"
              /\ UNCHANGED error
       ELSE /\ Raise("KeyError")
            /\ UNCHANGED workflow_json
  /\ UNCHANGED <<options, svg, server, geom, tempdir, i, pads, prompt_id, pending,
                 pending0, history, calls, uploaded, retried, reported, result, crop_box, inserted>>

\* The sampler write of populate_workflow.
PwSampler ==
  /\ pc = "pw_sampler"
  /\ LET ksampler_id == StrOfInt(get_workflow_option("ksampler_id").v) IN
       IF ksampler_id \in DOMAIN workflow_json
       THEN \E seed \in SeedValues(options.seed) :
              /\ workflow_json' =
                   [workflow_json EXCEPT ![ksampler_id].inputs =
                      SamplerUpdate(@, seed)]
              /\ pc' = "pw_image"
              /\ UNCHANGED error
       ELSE /\ Raise("KeyError")
            /\ UNCHANGED workflow_json
  /\ UNCHANGED <<options, svg, server, geom, tempdir, i, pads, prompt_id, pending,
                 pending0, history, calls, uploaded, retried, reported, result, crop_box, inserted>>

\* The guard of the three image slots: int(id) > 0 and id in workflow_json.
SlotGuard(id) == IntOfStr(id) > 0 /\ id \in DOMAIN workflow_json

\* One image slot whose guard holds: export_objects, process_image, load_image
\* and the assignment of the returned path to the node's image field.
\* export_objects raises ValueError without objects and FileNotFoundError when
\* inkscape wrote no file; saving a canvas of side 0 is left to the imaging
\* library, which may refuse it.
FillImageSlot(kind, id, objects, main_input_image, next) ==
  IF objects = {}
  THEN /\ Raise("ValueError")
       /\ UNCHANGED <<workflow_json, geom, pads, calls, uploaded, retried, reported>>
  ELSE \E exported \in svg.export, saved \in BOOLEAN, resp \in server.upload :
    LET size == ExportSize(objects)
        p == process_image(size[1], size[2], main_input_image, geom)
        up == load_image(resp)
    IN IF ~exported
       THEN /\ Raise("FileNotFoundError")
            /\ UNCHANGED <<workflow_json, geom, pads, calls, uploaded, retried, reported>>
       ELSE IF ~saved /\ p.pad.side = 0
       THEN /\ Raise("SystemError")
            /\ geom' = p.geom
            /\ UNCHANGED <<workflow_json, pads, calls, uploaded, retried, reported>>
       ELSE /\ saved
            /\ geom' = p.geom
            /\ pads' = [pads EXCEPT ![kind] = p.pad]
            /\ calls' = [calls EXCEPT !.upload = @ + 1]
            /\ uploaded' = resp
            /\ UNCHANGED <<retried, reported>>
            /\ IF up.raises # "None"
               THEN /\ Raise(up.raises)
                    /\ UNCHANGED workflow_json
               ELSE /\ workflow_json' = SetInput(workflow_json, id, "image", up.path)
                    /\ pc' = next
                    /\ UNCHANGED error

PwImage ==
  /\ pc = "pw_image"
  /\ IF options.workflow_select \notin ImageVariants
     THEN /\ pc' = "queue"
          /\ UNCHANGED <<workflow_json, geom, pads, calls, uploaded, retried, reported, error>>
     ELSE LET image_input_id == StrOfInt(get_workflow_option("image_input_id").v) IN
            IF SlotGuard(image_input_id)
            THEN FillImageSlot("image", image_input_id, get_image_objects, TRUE,
                               "pw_mask")
            ELSE /\ pc' = "pw_mask"
                 /\ UNCHANGED <<workflow_json, geom, pads, calls, uploaded, retried, reported, error>>
  /\ UNCHANGED <<options, svg, server, tempdir, i, prompt_id, pending, pending0, history,
                 result, crop_box, inserted>>

PwMask ==
  /\ pc = "pw_mask"
  /\ IF options.workflow_select # "masked"
     THEN /\ pc' = "pw_pose"
          /\ UNCHANGED <<workflow_json, geom, pads, calls, uploaded, retried, reported, error>>
     ELSE LET mask_input_id == StrOfInt(get_workflow_option("mask_input_id").v) IN
            IF SlotGuard(mask_input_id)
            THEN FillImageSlot("mask", mask_input_id, get_mask_objects, FALSE,
                               "pw_pose")
            ELSE /\ pc' = "pw_pose"
                 /\ UNCHANGED <<workflow_json, geom, pads, calls, uploaded, retried, reported, error>>
  /\ UNCHANGED <<options, svg, server, tempdir, i, prompt_id, pending, pending0, history,
                 result, crop_box, inserted>>

PwPose ==
  /\ pc = "pw_pose"
  /\ IF options.workflow_select # "pose"
     THEN /\ pc' = "queue"
          /\ UNCHANGED <<workflow_json, geom, pads, calls, uploaded, retried, reported, error>>
     ELSE IF get_workflow_option("pose_input_id").isNone
     THEN \* str(None) is "None", and int("None") raises
          /\ Raise("ValueError")
          /\ UNCHANGED <<workflow_json, geom, pads, calls, uploaded, retried, reported>>
     ELSE LET pose_input_id == StrOfInt(get_workflow_option("pose_input_id").v) IN
            IF SlotGuard(pose_input_id)
            THEN FillImageSlot("pose", pose_input_id, get_pose_objects, FALSE,
                               "queue")
            ELSE /\ pc' = "queue"
                 /\ UNCHANGED <<workflow_json, geom, pads, calls, uploaded, retried, reported, error>>
  /\ UNCHANGED <<options, svg, server, tempdir, i, prompt_id, pending, pending0, history,
                 result, crop_box, inserted>>

\* ---- generate_result_image -------------------------------------------------
\* ComfyUIExtension.queue_prompt: one POST to {api_url}prompt. A network error,
\* a body that is not JSON and a body without prompt_id are caught and give None.
SubmitResponses == {"URLError", "JSONDecodeError", "KeyError", "ok"}

queue_prompt(resp) == IF resp = "ok" THEN "job" ELSE "None"

\* A submission that goes on to poll the history whatever queue_prompt returned.
QueuePromptPollsAnyway ==
  /\ pc = "queue"
  /\ \E resp \in server.submit, n \in server.pending :
       /\ prompt_id' = queue_prompt(resp)
       /\ calls' = [calls EXCEPT !.prompt = @ + 1]
       /\ reported' = IF queue_prompt(resp) = "None"
                      THEN reported \cup {"queue_prompt"} ELSE reported
       /\ pc' = "history"
       /\ pending' = n
       /\ pending0' = n
  /\ UNCHANGED <<options, svg, server, workflow_json, geom, tempdir, i, error, pads,
                 history, uploaded, retried, result, crop_box, inserted>>

\* prompt_id = self.queue_prompt(workflow_json); if not prompt_id: return None
\* With None, effect hands None to insert_result_image. With a handle the
\* server is left with some number of history answers that lack the handle.
QueuePrompt ==
  /\ pc = "queue"
  /\ \E resp \in server.submit, n \in server.pending :
       /\ prompt_id' = queue_prompt(resp)
       /\ calls' = [calls EXCEPT !.prompt = @ + 1]
       /\ UNCHANGED <<uploaded, retried>>
       /\ IF queue_prompt(resp) = "None"
          THEN /\ pc' = "insert"
               /\ reported' = reported \cup {"queue_prompt"}
               /\ UNCHANGED <<pending, pending0>>
          ELSE /\ pc' = "history"
               /\ pending' = n
               /\ pending0' = n
               /\ UNCHANGED reported
  /\ UNCHANGED <<options, svg, server, workflow_json, geom, tempdir, i, error, pads,
                 history, result, crop_box, inserted>>

\* The outputs a finished job's history record can hold: per output node, in
\* the record's order, whether it has images and which.
HistoryOutputs ==
  { <<>>,
    << [has_images |-> FALSE, images |-> <<>>] >>,
    << [has_images |-> TRUE, images |-> <<"a.png">>] >>,
    << [has_images |-> TRUE, images |-> <<"a.png", "b.png">>] >>,
    << [has_images |-> FALSE, images |-> <<>>],
       [has_images |-> TRUE, images |-> <<"c.png">>] >> }

\* ---- retry_request ----------------------------------------------------------
\* max_retries=5 and backoff_factor=0.5, the latter in milliseconds.
MaxRetries == 5
BackoffMs == 500

RECURSIVE Pow2(_)
Pow2(n) == IF n = 0 THEN 1 ELSE 2 * Pow2(n - 1)

\* A sleep that grows by a fixed step with each attempt.
SleepTimeLinear(attempt) == BackoffMs * (attempt + 1)

\* sleep_time = backoff_factor * (2 ** attempt)
SleepTime(attempt) == BackoffMs * Pow2(attempt)

\* How the server treats one call's attempts: the first `fails` of them raise
\* URLError, the one after them succeeds ("ok") or raises an exception that is
\* not a URLError while the body is read.
AttemptPlans(max_fails) ==
  { [fails |-> f, then |-> t] : f \in 0..max_fails, t \in {"ok", "IncompleteRead"} }

\* The loop of retry_request from one attempt on: what it raises, whether it
\* returned a response, the attempts made and the sleeps slept, in order.
RECURSIVE RetryFrom(_, _, _, _)
RetryFrom(attempt, max_retries, plan, sleeps) ==
  IF attempt >= max_retries
  THEN [fails |-> plan.fails, then |-> plan.then, attempts |-> attempt,
        sleeps |-> sleeps, raises |-> "None", response |-> FALSE]
  ELSE IF attempt >= plan.fails
  THEN [fails |-> plan.fails, then |-> plan.then, attempts |-> attempt + 1,
        sleeps |-> sleeps,
        raises |-> IF plan.then = "ok" THEN "None" ELSE plan.then,
        response |-> plan.then = "ok"]
  ELSE IF attempt < max_retries - 1
  THEN RetryFrom(attempt + 1, max_retries, plan, Append(sleeps, SleepTime(attempt)))
  ELSE [fails |-> plan.fails, then |-> plan.then, attempts |-> attempt + 1,
        sleeps |-> sleeps, raises |-> "TimeoutError", response |-> FALSE]

\* A retry loop that allows one attempt more.
retry_requestOneMore(plan) == RetryFrom(0, MaxRetries + 1, plan, <<>>)

retry_request(plan) == RetryFrom(0, MaxRetries, plan, <<>>)

\* A job that the history never lists, as a number of pending responses.
Never == -1

\* The model stops counting the polls and sleeps of such a job here.
PollCap == MaxPending + 3

\* One more poll or sleep counted.
CountUp(n) == IF pending = Never /\ n >= PollCap THEN n ELSE n + 1

\* ComfyUIWebSocketAPI.get_history: retry_request, then json.loads. The
\* request raises, or the body is not JSON, or it is the history: without the
\* handle while the job is pending.
GetHistory(next) ==
  \E plan \in server.attempts, body \in server.history, outputs \in server.outputs :
    /\ calls' = [calls EXCEPT !.history = CountUp(@)]
    /\ retried' = retry_request(plan)
    /\ reported' = IF retry_request(plan).raises = "TimeoutError"
                   THEN reported \cup {"MaxRetries"} ELSE reported
    /\ UNCHANGED uploaded
    /\ IF retry_request(plan).raises # "None"
       THEN /\ Raise(retry_request(plan).raises)
            /\ UNCHANGED <<history, pending>>
       ELSE IF body # "ok"
       THEN /\ Raise(body)
            /\ UNCHANGED <<history, pending>>
       ELSE /\ IF pending # 0
               THEN /\ history' = NoHistory
                    /\ pending' = IF pending = Never THEN Never ELSE pending - 1
               ELSE /\ history' = [has_key |-> TRUE, images |-> outputs]
                    /\ UNCHANGED pending
            /\ pc' = next
            /\ UNCHANGED error

\* history = self.comfy.get_history(prompt_id)
HistoryFirst ==
  /\ pc = "history"
  /\ GetHistory("poll")
  /\ UNCHANGED <<options, svg, server, workflow_json, geom, tempdir, i, pads, prompt_id,
                 pending0, result, crop_box, inserted>>

\* A poll loop that goes on to the outputs after one more response, with or
\* without the handle.
PollLoopLeavesEarly ==
  /\ pc = "poll"
  /\ IF ~history.has_key /\ calls.history < 2
     THEN /\ GetHistory("sleep")
          /\ UNCHANGED <<options, svg, server, workflow_json, geom, tempdir, i, pads,
                         prompt_id, pending0, result, crop_box, inserted>>
     ELSE /\ pc' = "collect"
          /\ UNCHANGED <<options, svg, server, workflow_json, geom, tempdir, i, error,
                         pads, prompt_id, pending, pending0, history, calls, uploaded,
                         retried, reported, result, crop_box, inserted>>

\* A poll loop with a deadline of its own: it gives up after PollCap polls.
PollLoopGivesUp ==
  /\ pc = "poll"
  /\ IF ~history.has_key /\ calls.history < PollCap
     THEN /\ GetHistory("sleep")
          /\ UNCHANGED <<options, svg, server, workflow_json, geom, tempdir, i, pads,
                         prompt_id, pending0, result, crop_box, inserted>>
     ELSE IF ~history.has_key
     THEN /\ Raise("TimeoutError")
          /\ UNCHANGED <<options, svg, server, workflow_json, geom, tempdir, i,
                         pads, prompt_id, pending, pending0, history, calls, uploaded,
                         retried, reported, result, crop_box, inserted>>
     ELSE /\ pc' = "collect"
          /\ UNCHANGED <<options, svg, server, workflow_json, geom, tempdir, i, error,
                         pads, prompt_id, pending, pending0, history, calls, uploaded,
                         retried, reported, result, crop_box, inserted>>

\* A poll loop that asks once more after the handle has appeared.
PollLoopOnceMore ==
  /\ pc = "poll"
  /\ IF ~history.has_key \/ calls.history < pending0 + 2
     THEN /\ GetHistory("sleep")
          /\ UNCHANGED <<options, svg, server, workflow_json, geom, tempdir, i, pads,
                         prompt_id, pending0, result, crop_box, inserted>>
     ELSE /\ pc' = "collect"
          /\ UNCHANGED <<options, svg, server, workflow_json, geom, tempdir, i, error,
                         pads, prompt_id, pending, pending0, history, calls, uploaded, retried, reported,
                         result, crop_box, inserted>>

\* while prompt_id not in history: history = get_history(prompt_id); sleep(1)
PollLoop ==
  /\ pc = "poll"
  /\ IF ~history.has_key
     THEN /\ GetHistory("sleep")
          /\ UNCHANGED <<options, svg, server, workflow_json, geom, tempdir, i, pads,
                         prompt_id, pending0, result, crop_box, inserted>>
     ELSE /\ pc' = "collect"
          /\ UNCHANGED <<options, svg, server, workflow_json, geom, tempdir, i, error,
                         pads, prompt_id, pending, pending0, history, calls, uploaded, retried, reported,
                         result, crop_box, inserted>>

\* A poll loop whose pass does not sleep.
PollSleepSkipped ==
  /\ pc = "sleep"
  /\ UNCHANGED <<calls, uploaded, retried, reported>>
  /\ pc' = "poll"
  /\ UNCHANGED <<options, svg, server, workflow_json, geom, tempdir, i, error, pads,
                 prompt_id, pending, pending0, history, result, crop_box, inserted>>

\* time.sleep(1)
PollSleep ==
  /\ pc = "sleep"
  /\ calls' = [calls EXCEPT !.sleep = CountUp(@)]
  /\ UNCHANGED <<uploaded, retried, reported>>
  /\ pc' = "poll"
  /\ UNCHANGED <<options, svg, server, workflow_json, geom, tempdir, i, error, pads,
                 prompt_id, pending, pending0, history, result, crop_box, inserted>>

\* Every image entry of every output node, in order.
RECURSIVE AllImages(_)
AllImages(outputs) ==
  IF outputs = <<>> THEN <<>>
  ELSE (IF Head(outputs).has_images THEN Head(outputs).images ELSE <<>>)
         \o AllImages(Tail(outputs))

\* The sizes a result raster can have.
ResultSizes ==
  {<<s, s>> : s \in 1..MaxSide} \cup {<<2 * MaxSide, 2 * MaxSide>>, <<MaxSide, 2>>}

\* A collection that keeps the last entry fetched instead of the first.
CollectImagesUsesLast ==
  /\ pc = "collect"
  /\ UNCHANGED <<uploaded, retried, reported>>
  /\ LET names == AllImages(history.images) IN
     \E fail_at \in (IF server.view_fails THEN 0..Len(names) ELSE {0}),
        size \in server.result_sizes :
       IF fail_at > 0
       THEN /\ calls' = [calls EXCEPT !.view = @ + fail_at]
            /\ Raise("URLError")
            /\ UNCHANGED result
       ELSE /\ calls' = [calls EXCEPT !.view = @ + Len(names)]
            /\ IF names = <<>>
               THEN /\ Raise("IndexError")
                    /\ UNCHANGED result
               ELSE /\ result' = [path |-> names[Len(names)], w |-> size[1], h |-> size[2]]
                    /\ pc' = "insert"
                    /\ UNCHANGED error
  /\ UNCHANGED <<options, svg, server, workflow_json, geom, tempdir, i, pads, prompt_id,
                 pending, pending0, history, crop_box, inserted>>

\* A collection that, finding no image, lets the batch loop start over.
CollectImagesCarriesOn ==
  /\ pc = "collect"
  /\ UNCHANGED <<uploaded, retried, reported>>
  /\ LET names == AllImages(history.images) IN
     \E fail_at \in (IF server.view_fails THEN 0..Len(names) ELSE {0}),
        size \in server.result_sizes :
       IF fail_at > 0
       THEN /\ calls' = [calls EXCEPT !.view = @ + fail_at]
            /\ Raise("URLError")
            /\ UNCHANGED result
       ELSE /\ calls' = [calls EXCEPT !.view = @ + Len(names)]
            /\ IF names = <<>>
               THEN /\ RaiseAndCarryOn("IndexError")
                    /\ UNCHANGED result
               ELSE /\ result' = [path |-> names[1], w |-> size[1], h |-> size[2]]
                    /\ pc' = "insert"
                    /\ UNCHANGED error
  /\ UNCHANGED <<options, svg, server, workflow_json, geom, tempdir, i, pads, prompt_id,
                 pending, pending0, history, crop_box, inserted>>

\* The loop over history['outputs'] with one get_image per entry (a request
\* without retry: the first that fails raises URLError), output_images[0], and
\* the write of result_image.png.
CollectImages ==
  /\ pc = "collect"
  /\ UNCHANGED <<uploaded, retried, reported>>
  /\ LET names == AllImages(history.images) IN
     \E fail_at \in (IF server.view_fails THEN 0..Len(names) ELSE {0}),
        size \in server.result_sizes :
       IF fail_at > 0
       THEN /\ calls' = [calls EXCEPT !.view = @ + fail_at]
            /\ Raise("URLError")
            /\ UNCHANGED result
       ELSE /\ calls' = [calls EXCEPT !.view = @ + Len(names)]
            /\ IF names = <<>>
               THEN /\ Raise("IndexError")
                    /\ UNCHANGED result
               ELSE /\ result' = [path |-> names[1], w |-> size[1], h |-> size[2]]
                    /\ pc' = "insert"
                    /\ UNCHANGED error
  /\ UNCHANGED <<options, svg, server, workflow_json, geom, tempdir, i, pads, prompt_id,
                 pending, pending0, history, crop_box, inserted>>

\* ---- insert_result_image ----------------------------------------------------
\* image_input_id and int(image_input_id) > 0
UsesImageInput ==
  LET image_input_id == get_workflow_option("image_input_id") IN
    ~image_input_id.isNone /\ image_input_id.v # 0 /\ image_input_id.v > 0

\* The products x * (width / longest_side), as <<2 * x, width, longest_side>>,
\* whose value is a whole number and which double arithmetic rounds to just
\* below it, among longest_side <= 12 and width < 30: 15 / 11 rounds down and
\* 11.0 * (15 / 11) is 14.999999999999998.
FloatShort == { <<22, 15, 11>> }

\* int(x * result_ratio) for x = x2 / 2 and result_ratio = width / longest_side
\* (x2, width >= 0 and longest_side > 0): both are floats, the quotient is
\* rounded before the product is.
ScaleInt(x2, width, longest_side) ==
  IF <<x2, width, longest_side>> \in FloatShort
  THEN (x2 * width) \div (2 * longest_side) - 1
  ELSE (x2 * width) \div (2 * longest_side)

\* A crop whose offsets are truncated to whole pixels before they are scaled.
process_result_imageTruncFirst(width, height, g) ==
  IF UsesImageInput
  THEN IF g.longest_side = 0
       THEN [raises |-> "ZeroDivisionError", geom |-> g, box |-> NoBox]
       ELSE LET offset_x2 == 2 * IntHalf(g.longest_side - g.exported_width)
                offset_y2 == 2 * IntHalf(g.longest_side - g.exported_height)
            IN [raises |-> "None", geom |-> g,
                box |-> << ScaleInt(offset_x2, width, g.longest_side),
                           ScaleInt(offset_y2, width, g.longest_side),
                           ScaleInt(2 * g.longest_side - offset_x2, width,
                                    g.longest_side),
                           ScaleInt(2 * g.longest_side - offset_y2, width,
                                    g.longest_side) >>]
  ELSE LET longest_side == Max(width, height) IN
         [raises |-> "None",
          geom |-> [longest_side |-> longest_side, exported_width |-> width,
                    exported_height |-> height],
          box |-> <<0, 0, longest_side, longest_side>>]

\* _process_result_image on a result of size (width, height): the geometry it
\* leaves in self and the box it crops. raises is ZeroDivisionError when an
\* image input is configured and self.longest_side is still 0.
process_result_image(width, height, g) ==
  IF UsesImageInput
  THEN IF g.longest_side = 0
       THEN [raises |-> "ZeroDivisionError", geom |-> g, box |-> NoBox]
       ELSE LET offset_x2 == g.longest_side - g.exported_width
                offset_y2 == g.longest_side - g.exported_height
            IN [raises |-> "None", geom |-> g,
                box |-> << ScaleInt(offset_x2, width, g.longest_side),
                           ScaleInt(offset_y2, width, g.longest_side),
                           ScaleInt(2 * g.longest_side - offset_x2, width,
                                    g.longest_side),
                           ScaleInt(2 * g.longest_side - offset_y2, width,
                                    g.longest_side) >>]
  ELSE LET longest_side == Max(width, height) IN
         [raises |-> "None",
          geom |-> [longest_side |-> longest_side, exported_width |-> width,
                    exported_height |-> height],
          box |-> <<0, 0, longest_side, longest_side>>]

\* _determine_image_position_and_size, on the geometry the crop left.
determine_image_position_and_size(g) ==
  IF UsesImageInput
  THEN [position |-> <<svg.bbox.left, svg.bbox.top>>,
        dimensions |-> <<svg.bbox.width, svg.bbox.height>>]
  ELSE [position |-> <<0, 0>>,
        dimensions |-> <<g.exported_width, g.exported_height>>]

\* A placement that fills the grid column by column.
GridPositionColumnMajor(position, dimensions, index, columns, gap) ==
  << 100 * position[1] + dimensions[1] * IntDiv(index, columns) * (100 + gap),
     100 * position[2] + dimensions[2] * (index % columns) * (100 + gap) >>

\* A placement that keeps every element in the first row.
GridPositionOneRow(position, dimensions, index, columns, gap) ==
  << 100 * position[1] + dimensions[1] * (index % columns) * (100 + gap),
     100 * position[2] >>

\* The position insert_result_image computes, in hundredths of a user unit:
\*   gap = 1.0 + self.options.gap/100.0
\*   (position[0] + dimensions[0] * (index % columns) * gap,
\*    position[1] + dimensions[1] * int(index / columns) * gap)
GridPosition(position, dimensions, index, columns, gap) ==
  << 100 * position[1] + dimensions[1] * (index % columns) * (100 + gap),
     100 * position[2] + dimensions[2] * IntDiv(index, columns) * (100 + gap) >>

\* A provenance record that takes the seed from the options.
MetadataSeedOfOptions ==
  [positive_prompt |-> options.positive_prompt,
   negative_prompt |-> options.negative_prompt,
   cfg_scale |-> options.cfg_scale,
   denoise |-> options.denoise,
   seed |-> options.seed,
   steps |-> options.steps]

\* add_metadata
Metadata ==
  [positive_prompt |-> options.positive_prompt,
   negative_prompt |-> options.negative_prompt,
   cfg_scale |-> options.cfg_scale,
   denoise |-> options.denoise,
   seed |-> workflow_json[StrOfInt(get_workflow_option("ksampler_id").v)].inputs.seed,
   steps |-> options.steps]

\* insert_result_image(result_image_path, workflow_json, i), then the loop's
\* next index. Image.open(None) raises; a crop box without area may be refused
\* when it is saved; index % 0 raises.
InsertResultImage ==
  /\ pc = "insert"
  /\ IF result.path = "None"
     THEN /\ Raise("AttributeError")
          /\ UNCHANGED <<geom, crop_box, inserted, i>>
     ELSE LET c == process_result_image(result.w, result.h, geom)
              d == determine_image_position_and_size(c.geom)
          IN IF c.raises # "None"
             THEN /\ Raise(c.raises)
                  /\ UNCHANGED <<geom, crop_box, inserted, i>>
             ELSE \E saved \in BOOLEAN :
                  IF ~saved /\ (c.box[3] = c.box[1] \/ c.box[4] = c.box[2])
                  THEN /\ Raise("SystemError")
                       /\ geom' = c.geom
                       /\ UNCHANGED <<crop_box, inserted, i>>
                  ELSE /\ saved
                       /\ geom' = c.geom
                       /\ crop_box' = c.box
                       /\ IF options.columns = 0
                          THEN /\ Raise("ZeroDivisionError")
                               /\ UNCHANGED <<inserted, i>>
                          ELSE /\ inserted' = Append(inserted,
                                     [position |-> GridPosition(d.position,
                                         d.dimensions, i, options.columns,
                                         options.gap),
                                      dimensions |-> d.dimensions,
                                      index |-> i,
                                      metadata |-> Metadata])
                               /\ i' = i + 1
                               /\ pc' = "loop"
                               /\ UNCHANGED error
  /\ UNCHANGED <<options, svg, server, workflow_json, tempdir, pads, prompt_id, pending,
                 pending0, history, calls, uploaded, retried, reported, result>>

\* finally: shutil.rmtree(self.tempdir)
Finally ==
  /\ pc = "finally"
  /\ tempdir' = "removed"
  /\ pc' = "done"
  /\ UNCHANGED <<options, svg, server, workflow_json, geom, i, error, pads, prompt_id,
                 pending, pending0, history, calls, uploaded, retried, reported, result, crop_box, inserted>>

Next ==
  \/ EffectBegin
  \/ LoadWorkflow
  \/ LoopHead
  \/ PwPositive
  \/ PwNegative
  \/ PwSampler
  \/ PwImage
  \/ PwMask
  \/ PwPose
  \/ QueuePrompt
  \/ HistoryFirst
  \/ PollLoop
  \/ PollSleep
  \/ CollectImages
  \/ InsertResultImage
  \/ Finally

\* ---- initial states --------------------------------------------------------
\* The state ComfyUIExtension.__init__ leaves, for given options and document.
InitWith(opts, doc, srv) ==
  /\ options \in opts
  /\ svg \in doc
  /\ server \in srv
  /\ workflow_json = <<>>
  /\ geom = [longest_side |-> 0, exported_width |-> 0, exported_height |-> 0]
  /\ tempdir = "None"
  /\ pc = "begin"
  /\ i = 0
  /\ error = "None"
  /\ pads = NoPads
  /\ prompt_id = "None"
  /\ pending = 0
  /\ pending0 = 0
  /\ history = NoHistory
  /\ calls = NoCalls
  /\ uploaded = NoUpload
  /\ retried = NoRetry
  /\ reported = {}
  /\ result = NoResult
  /\ crop_box = NoBox
  /\ inserted = <<>>

\* Options that vary the slot configuration: each slot's node-ID is a node of
\* the graph, 0, or an ID the graph does not hold (99); the positive slot may
\* also name the negative slot's node.
SlotOptions ==
  { [workflow_select |-> v, positive_prompt |-> "X", negative_prompt |-> "Y",
     cfg_scale |-> 70, denoise |-> 75, steps |-> 20, seed |-> sd, batch |-> b,
     columns |-> 4, gap |-> 0, api_url |-> "http://127.0.0.1:8188/",
     workflow_json_path |-> "workflow.json",
     positive_id |-> p, negative_id |-> n, ksampler_id |-> k,
     image_input_id |-> im, mask_input_id |-> m, pose_input_id |-> po] :
    v \in Variants, sd \in {-1, 0, 42}, b \in 1..MaxBatch,
    p \in {0, 16, 19, 99}, n \in {0, 19, 99}, k \in {0, 36, 99},
    im \in {0, 38, 99}, m \in {0, 40, 99}, po \in {0, 40, 99} }

\* An option add_arguments does not define for the variant is never read: the
\* slot runs keep 0 there, so that no two of them differ only in such a value.
WellFormed(o) ==
  \A name \in {"image_input_id", "mask_input_id", "pose_input_id"} :
    name \notin DefinedOptions(o.workflow_select) => o[name] = 0

\* The document: the three objects selected, with fixed raster sizes.
ObjectSizes(image, mask, pose) ==
  [id \in Objects |->
     CASE id = "rect1" -> image
       [] id = "rect__mask" -> mask
       [] id = "rect__pose" -> pose]

SlotDocuments ==
  { [selection |-> Objects,
     size |-> ObjectSizes(<<2, 4>>, <<3, 3>>, <<4, 1>>),
     export |-> {TRUE},
     bbox |-> [left |-> 10, top |-> 20, width |-> 2, height |-> 4]] }

\* A server that answers every request as the protocol says, after leaving the
\* job pending for one poll.
UploadOk ==
  [status |-> 200, json |-> TRUE, has_name |-> TRUE, name |-> "up.png",
   has_subfolder |-> FALSE, subfolder |-> ""]

ReliableServer ==
  [upload |-> {UploadOk}, submit |-> {"ok"}, pending |-> {1}, history |-> {"ok"},
   attempts |-> {[fails |-> 0, then |-> "ok"]},
   outputs |-> { << [has_images |-> TRUE, images |-> <<"a.png">>] >> },
   result_sizes |-> {<<4, 4>>}, view_fails |-> FALSE]

\* A server that can give every answer the model knows.
AnyServer ==
  [upload |-> UploadResponses, submit |-> SubmitResponses,
   pending |-> 0..MaxPending,
   history |-> {"ok", "JSONDecodeError"},
   attempts |-> AttemptPlans(MaxRetries + 1),
   outputs |-> HistoryOutputs, result_sizes |-> ResultSizes, view_fails |-> TRUE]

Init ==
  InitWith({o \in SlotOptions : WellFormed(o)}, SlotDocuments, {ReliableServer})

Spec == Init /\ [][Next]_vars

\* ---- runs that vary the geometry ---------------------------------------------
\* Every slot names its node (the image slot may also be 0); the exported
\* rasters and the result raster take every size up to the bounds.
GeomOptions ==
  { [workflow_select |-> v, positive_prompt |-> "X", negative_prompt |-> "Y",
     cfg_scale |-> 70, denoise |-> 75, steps |-> 20, seed |-> 42, batch |-> b,
     columns |-> 4, gap |-> 0, api_url |-> "http://127.0.0.1:8188/",
     workflow_json_path |-> "workflow.json",
     positive_id |-> 16, negative_id |-> 19, ksampler_id |-> 36,
     image_input_id |-> im, mask_input_id |-> 40, pose_input_id |-> 40] :
    v \in {"basic", "img2img", "masked", "pose"}, b \in 1..MaxBatch,
    im \in {0, 38} }

GeomDocuments ==
  { [selection |-> Objects,
     size |-> ObjectSizes(<<w, h>>, m, <<4, 1>>),
     export |-> {TRUE},
     bbox |-> [left |-> 10, top |-> 20, width |-> w, height |-> h]] :
    w \in 1..MaxSide, h \in 1..MaxSide,
    m \in {<<3, 3>>, <<1, MaxSide>>, <<MaxSide + 1, 2>>} }

GeomServer == [ReliableServer EXCEPT !.result_sizes = ResultSizes]

InitGeom ==
  InitWith(GeomOptions, GeomDocuments, {GeomServer})

SpecGeom == InitGeom /\ [][Next]_vars

\* ---- runs that vary the server's answers -----------------------------------
JobOptions ==
  { [workflow_select |-> v, positive_prompt |-> "X", negative_prompt |-> "Y",
     cfg_scale |-> 70, denoise |-> 75, steps |-> 20, seed |-> 42, batch |-> b,
     columns |-> 4, gap |-> 0, api_url |-> "http://127.0.0.1:8188/",
     workflow_json_path |-> "workflow.json",
     positive_id |-> 16, negative_id |-> 19, ksampler_id |-> 36,
     image_input_id |-> 38, mask_input_id |-> 40, pose_input_id |-> 40] :
    v \in {"basic", "img2img", "masked"}, b \in 1..MaxBatch }

JobDocuments ==
  { [selection |-> Objects,
     size |-> ObjectSizes(<<2, 4>>, <<3, 3>>, <<4, 1>>),
     export |-> BOOLEAN,
     bbox |-> [left |-> 10, top |-> 20, width |-> 2, height |-> 4]] }

InitJob ==
  InitWith(JobOptions, JobDocuments, {AnyServer})

SpecJob == InitJob /\ [][Next]_vars

\* ---- runs that vary the batch grid -----------------------------------------
Gaps == {0, 1, 50}

PlaceOptions ==
  { [workflow_select |-> v, positive_prompt |-> "X", negative_prompt |-> "Y",
     cfg_scale |-> 70, denoise |-> 75, steps |-> 20, seed |-> 42, batch |-> b,
     columns |-> c, gap |-> g, api_url |-> "http://127.0.0.1:8188/",
     workflow_json_path |-> "workflow.json",
     positive_id |-> 16, negative_id |-> 19, ksampler_id |-> 36,
     image_input_id |-> 38, mask_input_id |-> 40, pose_input_id |-> 40] :
    v \in {"basic", "img2img"}, b \in 1..(MaxIndex + 1), c \in 0..MaxColumns,
    g \in Gaps }

PlaceDocuments ==
  { [selection |-> Objects,
     size |-> ObjectSizes(<<2, 4>>, <<3, 3>>, <<4, 1>>),
     export |-> {TRUE},
     bbox |-> [left |-> l, top |-> 20, width |-> 2, height |-> 3]] :
    l \in {0, 10} }

InitPlace ==
  InitWith(PlaceOptions, PlaceDocuments, {ReliableServer})

SpecPlace == InitPlace /\ [][Next]_vars

\* ---- runs that vary the required parameters and the selection ----------------
ConfigOptions ==
  { [workflow_select |-> v, positive_prompt |-> pp, negative_prompt |-> np,
     cfg_scale |-> 70, denoise |-> 75, steps |-> 20, seed |-> 42, batch |-> b,
     columns |-> 4, gap |-> 0, api_url |-> url,
     workflow_json_path |-> path,
     positive_id |-> 16, negative_id |-> 19, ksampler_id |-> 36,
     image_input_id |-> 38, mask_input_id |-> 40, pose_input_id |-> 40] :
    v \in {"basic", "img2img", "masked", "pose"}, b \in 1..MaxBatch,
    pp \in {"", "X"}, np \in {"", "Y"}, path \in {"", "workflow.json"},
    url \in {"", " ", "http://127.0.0.1:8188/"} }

ConfigDocuments ==
  { [selection |-> sel,
     size |-> ObjectSizes(<<2, 4>>, <<3, 3>>, <<4, 1>>),
     export |-> {TRUE},
     bbox |-> [left |-> 10, top |-> 20, width |-> 2, height |-> 4]] :
    sel \in {{}, {"rect1"}, Objects} }

InitConfig ==
  InitWith(ConfigOptions, ConfigDocuments, {ReliableServer})

SpecConfig == InitConfig /\ [][Next]_vars

\* ---- runs that vary the scale of the result -----------------------------------
\* Main images of side 11 next to small ones, results of 11, 15 and 22 pixels.
CropOptions ==
  { o \in GeomOptions : o.workflow_select \in {"basic", "img2img"} }

CropDocuments ==
  { [selection |-> Objects,
     size |-> ObjectSizes(s, <<3, 3>>, <<4, 1>>),
     export |-> {TRUE},
     bbox |-> [left |-> 10, top |-> 20, width |-> s[1], height |-> s[2]]] :
    s \in {<<11, 11>>, <<11, 5>>, <<4, 11>>, <<3, 3>>, <<2, 4>>} }

CropServer ==
  [ReliableServer EXCEPT !.result_sizes = {<<11, 11>>, <<15, 15>>, <<22, 22>>, <<4, 4>>}]

InitCrop ==
  InitWith(CropOptions, CropDocuments, {CropServer})

SpecCrop == InitCrop /\ [][Next]_vars

\* ---- runs in which a job may never appear in the history ----------------------
\* The server answers as the protocol says, except that a job stays pending for
\* up to MaxPending polls or for ever, and that a request to the history fails
\* up to MaxRetries times in a row before it succeeds.
LiveOptions == { o \in JobOptions : o.workflow_select \in {"basic", "img2img"} }

LiveServer ==
  [ReliableServer EXCEPT
     !.pending = (0..MaxPending) \cup {Never},
     !.attempts = {p \in AttemptPlans(MaxRetries) : p.then = "ok"}]

InitLive ==
  InitWith(LiveOptions, SlotDocuments, {LiveServer})

\* effect is one thread: a statement that can run does run.
SpecLive == InitLive /\ [][Next]_vars /\ WF_vars(Next)

\* ---- direct calls of the client and of load_workflow --------------------------
\* The calls test_comfyui_extension.py makes outside effect: a caller makes up
\* to MaxCalls of them in any order. In these runs pc names the call made last,
\* i counts the calls, calls counts the requests since the start, error is what
\* the last call raised, and prompt_id, uploaded, retried, history and
\* workflow_json hold what the last call of their kind returned.

\* The files on disk and what they hold: a JSON object as its members in the
\* text's order, or text that is not JSON.
FilesOnDisk == {"workflow.json", "twice.json", "broken.json", "image.png"}

FileMembers(path) ==
  CASE path = "workflow.json" ->
         << <<"16", LoadedWorkflow["16"]>>, <<"19", LoadedWorkflow["19"]>>,
            <<"38", LoadedWorkflow["38"]>>, <<"36", LoadedWorkflow["36"]>> >>
    [] path = "twice.json" ->
         << <<"16", LoadedWorkflow["16"]>>, <<"19", LoadedWorkflow["19"]>>,
            <<"16", LoadedWorkflow["19"]>> >>
    [] OTHER -> <<>>

IsJson(path) == path \in {"workflow.json", "twice.json"}

\* json.loads on an object's members: a dict keyed by the member names, a later
\* member replacing an earlier one of the same name.
RECURSIVE JsonLoads(_)
JsonLoads(members) ==
  IF members = <<>> THEN <<>>
  ELSE LET n == Len(members) IN
         DictSet(JsonLoads(SubSeq(members, 1, n - 1)), members[n][1], members[n][2])

\* A load that gives no graph for a missing file instead of raising.
load_workflowQuiet(filepath) ==
  IF filepath \notin FilesOnDisk \/ ~IsJson(filepath)
  THEN [raises |-> "None", returns |-> <<>>]
  ELSE [raises |-> "None", returns |-> JsonLoads(FileMembers(filepath))]

\* load_workflow(filepath): open, read, json.loads.
load_workflow(filepath) ==
  IF filepath \notin FilesOnDisk
  THEN [raises |-> "FileNotFoundError", returns |-> <<>>]
  ELSE IF ~IsJson(filepath)
  THEN [raises |-> "JSONDecodeError", returns |-> <<>>]
  ELSE [raises |-> "None", returns |-> JsonLoads(FileMembers(filepath))]

\* What POST /prompt can answer to the client: an exception of urlopen, a body
\* that is not JSON, a JSON body without prompt_id, or one with it.
ClientSubmitResponses ==
  {"URLError", "Exception", "JSONDecodeError", "no_prompt_id", "ok"}

\* A submit that catches what the request raises and returns None.
comfy_queue_promptSwallows(resp) ==
  [requests |-> 1, raises |-> "None",
   returns |-> IF resp = "ok" THEN "job" ELSE "None"]

\* ComfyUIWebSocketAPI.queue_prompt: json.loads(urlopen(req).read()), the
\* prompt_id of the dict returned ("None" without one).
comfy_queue_prompt(resp) ==
  [requests |-> 1,
   raises |-> IF resp \in {"ok", "no_prompt_id"} THEN "None" ELSE resp,
   returns |-> IF resp = "ok" THEN "job" ELSE "None"]

ClientQueuePrompt ==
  /\ i < MaxCalls
  /\ \E resp \in server.submit :
       LET q == comfy_queue_prompt(resp) IN
         /\ calls' = [calls EXCEPT !.prompt = @ + q.requests]
         /\ error' = q.raises
         /\ prompt_id' = q.returns
  /\ pc' = "queue_prompt"
  /\ i' = i + 1
  /\ UNCHANGED <<workflow_json, history, uploaded, retried, reported>>
  /\ UNCHANGED <<options, svg, server, geom, tempdir, pads, pending, pending0, result,
                 crop_box, inserted>>

\* A load_image that sends the request before it opens the file.
load_imageSendsFirst(filepath, resp) ==
  IF filepath \notin FilesOnDisk
  THEN [requests |-> 1, raises |-> "FileNotFoundError", path |-> "None"]
  ELSE [requests |-> 1, raises |-> upload_file(resp).raises,
        path |-> upload_file(resp).path]

\* ComfyUIWebSocketAPI.load_image(filepath): open(filepath, "rb"), then
\* upload_file.
load_image_file(filepath, resp) ==
  IF filepath \notin FilesOnDisk
  THEN [requests |-> 0, raises |-> "FileNotFoundError", path |-> "None"]
  ELSE [requests |-> 1, raises |-> upload_file(resp).raises,
        path |-> upload_file(resp).path]

ClientLoadImage ==
  /\ i < MaxCalls
  /\ \E resp \in server.upload :
       LET l == load_image_file(options.image_path, resp) IN
         /\ calls' = [calls EXCEPT !.upload = @ + l.requests]
         /\ error' = l.raises
         /\ uploaded' = IF l.requests = 0 THEN NoUpload ELSE resp
  /\ pc' = "load_image"
  /\ i' = i + 1
  /\ UNCHANGED <<workflow_json, history, prompt_id, retried, reported>>
  /\ UNCHANGED <<options, svg, server, geom, tempdir, pads, pending, pending0, result,
                 crop_box, inserted>>

\* ComfyUIWebSocketAPI.get_history: retry_request, then json.loads.
ClientGetHistory ==
  /\ i < MaxCalls
  /\ \E plan \in server.attempts, body \in server.history, has_key \in BOOLEAN :
       LET r == retry_request(plan) IN
         /\ calls' = [calls EXCEPT !.history = @ + r.attempts]
         /\ retried' = r
         /\ reported' = IF r.raises = "TimeoutError"
                        THEN reported \cup {"MaxRetries"} ELSE reported
         /\ error' = IF r.raises # "None" THEN r.raises
                     ELSE IF body # "ok" THEN body ELSE "None"
         /\ history' = IF r.raises # "None" \/ body # "ok"
                       THEN NoHistory
                       ELSE [has_key |-> has_key, images |-> <<>>]
  /\ pc' = "get_history"
  /\ i' = i + 1
  /\ UNCHANGED <<workflow_json, prompt_id, uploaded>>
  /\ UNCHANGED <<options, svg, server, geom, tempdir, pads, pending, pending0, result,
                 crop_box, inserted>>

\* ComfyUIWebSocketAPI.get_image: one urlopen, the body read.
ClientGetImage ==
  /\ i < MaxCalls
  /\ \E fails \in (IF server.view_fails THEN BOOLEAN ELSE {FALSE}) :
       /\ calls' = [calls EXCEPT !.view = @ + 1]
       /\ error' = IF fails THEN "URLError" ELSE "None"
  /\ pc' = "get_image"
  /\ i' = i + 1
  /\ UNCHANGED <<workflow_json, history, prompt_id, uploaded, retried, reported>>
  /\ UNCHANGED <<options, svg, server, geom, tempdir, pads, pending, pending0, result,
                 crop_box, inserted>>

\* load_workflow(filepath)
ClientLoadWorkflow ==
  /\ i < MaxCalls
  /\ LET w == load_workflow(options.workflow_json_path) IN
       /\ error' = w.raises
       /\ workflow_json' = IF w.raises = "None" THEN w.returns ELSE workflow_json
  /\ pc' = "load_workflow"
  /\ i' = i + 1
  /\ UNCHANGED <<calls, history, prompt_id, uploaded, retried, reported>>
  /\ UNCHANGED <<options, svg, server, geom, tempdir, pads, pending, pending0, result,
                 crop_box, inserted>>

NextClient ==
  \/ ClientQueuePrompt
  \/ ClientLoadImage
  \/ ClientGetHistory
  \/ ClientGetImage
  \/ ClientLoadWorkflow

\* The arguments of the calls: paths that exist and the paths the tests use for
\* files that do not.
ClientOptions ==
  { [api_url |-> "http://127.0.0.1:8188/", workflow_json_path |-> w,
     image_path |-> p] :
    w \in {"workflow.json", "twice.json", "broken.json",
           "/invalid/path/to/workflow.json"},
    p \in {"image.png", "/invalid/path/to/image.png"} }

\* Each run has one answer to POST /prompt; a request to the history fails
\* never, once, or often enough to end or nearly end the retries.
ClientServers ==
  { [AnyServer EXCEPT
       !.submit = {r},
       !.attempts = {p \in AttemptPlans(MaxRetries) :
                       p.fails \in {0, 1, MaxRetries - 1, MaxRetries}}] :
    r \in ClientSubmitResponses }

InitClient ==
  InitWith(ClientOptions, SlotDocuments, ClientServers)

SpecClient == InitClient /\ [][NextClient]_vars

\* ==== properties ==============================================================
\* The statement of populate_workflow that serves each slot, the statement that
\* follows it, and the node-ID the slot is configured with.
SlotStep ==
  [positive_id |-> "pw_positive", negative_id |-> "pw_negative",
   ksampler_id |-> "pw_sampler", image_input_id |-> "pw_image",
   mask_input_id |-> "pw_mask", pose_input_id |-> "pw_pose"]

StepAfter ==
  [positive_id |-> "pw_negative", negative_id |-> "pw_sampler",
   ksampler_id |-> "pw_image", image_input_id |-> "pw_mask",
   mask_input_id |-> "pw_pose", pose_input_id |-> "queue"]

ConfiguredSlots == DefinedOptions(options.workflow_select)

SlotNode(slot) == StrOfInt(options[slot])

\* C1: for every slot, when the slot's configured node-ID is not a key of the
\* graph, the slot's statement raises nothing, leaves the graph as it is and
\* goes on to the next statement of populate_workflow (and so to the submit).
C1_AbsentNodeIsSkipped ==
  [][\A slot \in ConfiguredSlots :
       (pc = SlotStep[slot] /\ SlotNode(slot) \notin DOMAIN workflow_json)
         => /\ error' = "None"
            /\ workflow_json' = workflow_json
            /\ pc' = StepAfter[slot]]_vars

\* C2: for every slot, when the slot's configured node-ID is 0, the slot's
\* statement writes to no node, also when the graph has a node keyed "0".
C2_ZeroIdNeverWritten ==
  [][\A slot \in ConfiguredSlots :
       (pc = SlotStep[slot] /\ options[slot] = 0)
         => workflow_json' = workflow_json]_vars

\* The statements of populate_workflow, and the nodes its slots name: str(id)
\* for each slot the variant defines, "0" included for the three unguarded
\* slots.
InPopulate ==
  pc \in {"pw_positive", "pw_negative", "pw_sampler", "pw_image", "pw_mask", "pw_pose"}
SlotTargets == {SlotNode(slot) : slot \in ConfiguredSlots}
PromptFields == {"text", "text_l", "text_g"}
PromptIs(node, text) ==
  \A f \in PromptFields :
    f \in DOMAIN workflow_json'[node].inputs /\ workflow_json'[node].inputs[f] = text
FrameOfPopulate ==
  InPopulate =>
    /\ DOMAIN workflow_json' = DOMAIN workflow_json
    /\ \A n \in DOMAIN workflow_json :
         n \notin SlotTargets => workflow_json'[n] = workflow_json[n]

\* C3 as stated: when populate_workflow ends, the positive slot's node has
\* text, text_l and text_g equal to the positive prompt, and no node outside
\* the slots' targets changed. Refuted when the negative slot names the same
\* node: the negative prompt is written second.
C3_PositiveTextAlways ==
  [][/\ FrameOfPopulate
     /\ (InPopulate /\ pc' = "queue")
          => PromptIs(SlotNode("positive_id"), options.positive_prompt)]_vars

\* C3: when populate_workflow ends, the positive slot's node has text, text_l
\* and text_g equal to the positive prompt unless the negative slot names the
\* same node, in which case they equal the negative prompt; every node that no
\* slot names is as it was before each statement of populate_workflow.
C3_PositiveTextAndFrame ==
  [][/\ FrameOfPopulate
     /\ (InPopulate /\ pc' = "queue")
          => PromptIs(SlotNode("positive_id"),
                      IF SlotNode("negative_id") = SlotNode("positive_id")
                      THEN options.negative_prompt
                      ELSE options.positive_prompt)]_vars

C3_Witness ==
  /\ pc = "queue"
  /\ SlotNode("positive_id") # SlotNode("negative_id")
  /\ \A f \in PromptFields :
       workflow_json[SlotNode("positive_id")].inputs[f] = options.positive_prompt
  /\ workflow_json["9"] = LoadedWorkflow["9"]

\* The fields the sampler write names.
SamplerFields == {"cfg", "denoise", "steps", "seed"}

\* C4: the sampler statement leaves every input field of the sampler node
\* other than cfg, denoise, steps and seed present with its value, sets cfg,
\* denoise and steps to the options' values, and changes no other node.
C4_SamplerMerge ==
  [][(pc = "pw_sampler" /\ pc' = "pw_image") =>
       LET id == SlotNode("ksampler_id")
           before == workflow_json[id].inputs
           after == workflow_json'[id].inputs
       IN /\ \A f \in (DOMAIN before) \ SamplerFields :
               f \in DOMAIN after /\ after[f] = before[f]
          /\ DOMAIN after = (DOMAIN before) \cup SamplerFields
          /\ after.cfg = options.cfg_scale
          /\ after.denoise = options.denoise
          /\ after.steps = options.steps
          /\ workflow_json'[id].class_type = workflow_json[id].class_type
          /\ \A n \in (DOMAIN workflow_json) \ {id} :
               workflow_json'[n] = workflow_json[n]]_vars

C4_Witness ==
  /\ pc = "pw_image"
  /\ options.ksampler_id = 36
  /\ workflow_json["36"].inputs.cfg = options.cfg_scale
  /\ workflow_json["36"].inputs.cfg # LoadedWorkflow["36"].inputs.cfg
  /\ workflow_json["36"].inputs.sampler_name = "dpmpp_2m_sde_gpu"
  /\ workflow_json["36"].inputs.latent_image = <<"39", 0>>

\* C5 as stated: the seed the sampler statement writes is the caller's seed
\* when that is above 0, else an integer s with 0 <= s < 1000000000. Refuted:
\* random.randint includes its upper end.
C5_SeedBelowHigh ==
  [][(pc = "pw_sampler" /\ pc' = "pw_image") =>
       LET s == workflow_json'[SlotNode("ksampler_id")].inputs.seed IN
         IF options.seed > 0 THEN s = options.seed
         ELSE 0 <= s /\ s < RandSeedHigh]_vars

\* C5: the seed the sampler statement writes is the caller's seed when that is
\* above 0, else an integer s with 0 <= s <= 1000000000, the upper end
\* included.
C5_SeedUpToHigh ==
  [][(pc = "pw_sampler" /\ pc' = "pw_image") =>
       LET s == workflow_json'[SlotNode("ksampler_id")].inputs.seed IN
         IF options.seed > 0 THEN s = options.seed
         ELSE 0 <= s /\ s <= RandSeedHigh]_vars

C5_Witness ==
  /\ pc = "pw_image"
  /\ options.seed <= 0
  /\ options.ksampler_id = 36
  /\ workflow_json["36"].inputs.seed = RandSeedHigh

\* x is d / 2 truncated toward zero.
TruncHalfIs(x, d) ==
  IF d >= 0 THEN 2 * x <= d /\ d < 2 * x + 2
  ELSE d <= 2 * x /\ 2 * x - 2 < d

\* The input kinds process_image is called for, and a pad of one kind made in
\* this step.
PadKinds == {"image", "mask", "pose"}
Padded(kind) == pads'[kind] # pads[kind] /\ pads'[kind] # NoPad
OffsetsOf(p) == TruncHalfIs(p.x, p.side - p.w) /\ TruncHalfIs(p.y, p.side - p.h)

\* C6 as stated: every pad, for the main image, the mask or the pose, gives a
\* canvas of side max(w, h) with the source at the truncated half differences.
\* Refuted for a mask or pose: its canvas has the side recorded in
\* self.longest_side.
C6_PadSideIsOwnLongest ==
  [][\A kind \in PadKinds :
       Padded(kind) =>
         LET p == pads'[kind] IN p.side = Max(p.w, p.h) /\ OffsetsOf(p)]_vars

\* C6: a pad of the main image gives a canvas of side max(w, h) and records
\* that side; a pad of a mask or pose gives a canvas of the side recorded in
\* self.longest_side before the call (0 when nothing recorded one) and records
\* nothing; in both the source is pasted at the half differences of side and
\* size, truncated toward zero.
C6_PadGeometry ==
  [][\A kind \in PadKinds :
       Padded(kind) =>
         LET p == pads'[kind] IN
           /\ OffsetsOf(p)
           /\ IF kind = "image"
              THEN /\ p.side = Max(p.w, p.h)
                   /\ geom' = [longest_side |-> p.side, exported_width |-> p.w,
                               exported_height |-> p.h]
              ELSE p.side = geom.longest_side /\ geom' = geom]_vars

C6_Witness ==
  /\ pads.image # NoPad
  /\ pads.image.w # pads.image.h
  /\ pads.image.x + pads.image.y > 0
  /\ pads.mask # NoPad
  /\ pads.mask.side = pads.image.side
  /\ pads.mask.side # Max(pads.mask.w, pads.mask.h)

\* C7: when the main image was padded in an iteration and the result has the
\* padded canvas's side in both directions, the rectangle cropped is exactly
\* the one the pad pasted the source into, so its width and height are the
\* source's, odd differences included.
C7_PadCropRoundTrip ==
  (/\ pc = "loop"
   /\ pads.image # NoPad
   /\ crop_box # NoBox
   /\ result.w = pads.image.side
   /\ result.h = pads.image.side)
    => /\ crop_box = << pads.image.x, pads.image.y,
                        pads.image.x + pads.image.w, pads.image.y + pads.image.h >>
       /\ crop_box[3] - crop_box[1] = pads.image.w
       /\ crop_box[4] - crop_box[2] = pads.image.h

C7_Witness ==
  /\ pc = "loop"
  /\ pads.image # NoPad
  /\ result.w = pads.image.side
  /\ result.h = pads.image.side
  /\ (pads.image.side - pads.image.w) % 2 = 1
  /\ crop_box = << pads.image.x, pads.image.y,
                   pads.image.x + pads.image.w, pads.image.y + pads.image.h >>

\* The base position of a placement, and the offset of an inserted element
\* from it, in hundredths of a user unit.
BasePosition ==
  IF UsesImageInput THEN <<svg.bbox.left, svg.bbox.top>> ELSE <<0, 0>>
OffsetOf(e) ==
  << e.position[1] - 100 * BasePosition[1], e.position[2] - 100 * BasePosition[2] >>

\* C8: the element inserted for batch index i lies at the base position plus
\* (width * col * (1 + gap/100), height * row * (1 + gap/100)) where
\* i = row * columns + col and 0 <= col < columns, a row-major grid; with
\* columns = 4 and gap = 0, index 5 lies at (1 * width, 1 * height).
C8_GridPlacement ==
  \A k \in 1..Len(inserted) :
    LET e == inserted[k]
        w == e.dimensions[1]
        h == e.dimensions[2]
    IN /\ e.index = k - 1
       /\ options.columns >= 1
       /\ \E col \in 0..(options.columns - 1), row \in 0..e.index :
            /\ e.index = row * options.columns + col
            /\ OffsetOf(e) = << w * col * (100 + options.gap),
                                h * row * (100 + options.gap) >>
       /\ (options.columns = 4 /\ options.gap = 0 /\ e.index = 5)
            => OffsetOf(e) = <<100 * w, 100 * h>>

C8_Witness ==
  /\ Len(inserted) = 6
  /\ options.columns = 4
  /\ options.gap = 0
  /\ UsesImageInput
  /\ inserted[6].index = 5
  /\ inserted[6].dimensions = <<svg.bbox.width, svg.bbox.height>>
  /\ inserted[6].position = << 100 * (svg.bbox.left + svg.bbox.width),
                               100 * (svg.bbox.top + svg.bbox.height) >>

\* C9: with n history responses that lack the handle before one that holds it,
\* the iteration has made exactly n + 1 history calls once the handle is seen
\* and makes no further one: while the handle is absent the calls made are the
\* absent responses received, and the loop leaves at its next test once the
\* handle is present.
C9_PollCalls ==
  /\ [](history.has_key => calls.history = pending0 + 1)
  /\ []((pc \in {"poll", "sleep"} /\ ~history.has_key)
          => calls.history = pending0 - pending)
  /\ [][(pc = "poll" /\ history.has_key)
          => (pc' = "collect" /\ calls' = calls)]_vars

C9_Witness ==
  /\ pc = "collect"
  /\ pending0 = 2
  /\ history.has_key
  /\ calls.history = 3
  /\ calls.sleep = 2

\* C10 as stated: an upload whose response carries no name raises, and the
\* graph is not written from it. Refuted by a response with a 2xx status other
\* than 200: upload_file returns None without raising and the image field is
\* set to None.
C10_NoNameRaises ==
  [][(calls'.upload = calls.upload + 1 /\ ~uploaded'.has_name)
       => (error' # "None" /\ workflow_json' = workflow_json)]_vars

\* The image references of the graph: the image field of every node that has
\* one.
ImageReferences ==
  { workflow_json[n].inputs.image :
      n \in {m \in DOMAIN workflow_json : "image" \in DOMAIN workflow_json[m].inputs} }

\* C11 as stated: once an iteration has made its submit request, every upload
\* of the iteration yielded a server path, so no image field of the graph is
\* None. Refuted by an upload answered with a status below 400 other than 200:
\* no error surfaces, the field is None and the graph is submitted.
C11_NoSubmitWithoutPath ==
  (calls.prompt > 0 /\ calls.upload > 0) => "None" \notin ImageReferences

\* C12: a get_history call makes at least one and at most 5 attempts; it
\* returns the response of the first attempt that succeeds; when 5 attempts
\* fail with URLError it raises TimeoutError after the 5th; it never returns
\* normally without a response.
C12_AtMostFiveAttempts ==
  calls.history > 0 =>
    /\ retried.attempts >= 1
    /\ retried.attempts <= MaxRetries
    /\ retried.response => (retried.raises = "None" /\ retried.attempts = retried.fails + 1)
    /\ (retried.fails < MaxRetries /\ retried.then = "ok") => retried.response
    /\ retried.fails >= MaxRetries
         => (retried.raises = "TimeoutError" /\ retried.attempts = MaxRetries)
    /\ retried.raises = "None" => retried.response
    /\ retried.raises # "None" => (error = retried.raises /\ pc \in {"finally", "done"})

C12_Witness ==
  /\ pc = "finally"
  /\ error = "TimeoutError"
  /\ retried.fails > MaxRetries
  /\ retried.attempts = MaxRetries
  /\ ~retried.response

\* The delays retry_request sleeps when every attempt fails, in milliseconds.
BackoffDelays == <<500, 1000, 2000, 4000>>

\* C13 as stated: when every attempt of a get_history call fails, the delays
\* slept before TimeoutError are 0.5, 1, 2, 4 and 8 seconds. Refuted: no sleep
\* follows the 5th failed attempt.
C13_FiveDelays ==
  (calls.history > 0 /\ retried.raises = "TimeoutError")
    => retried.sleeps = BackoffDelays \o <<8000>>

\* C13: the delay slept after failed attempt k is 0.5 * 2^(k-1) seconds for
\* k = 1..4, and the 5th failed attempt is followed by TimeoutError without a
\* sleep: when every attempt fails the delays are 0.5, 1, 2 and 4 seconds.
C13_FourDelays ==
  calls.history > 0 =>
    /\ Len(retried.sleeps) =
         (IF retried.fails >= MaxRetries THEN MaxRetries - 1 ELSE retried.fails)
    /\ \A k \in 1..Len(retried.sleeps) : retried.sleeps[k] = BackoffDelays[k]
    /\ retried.raises = "TimeoutError" => retried.sleeps = BackoffDelays

C13_Witness ==
  /\ error = "TimeoutError"
  /\ retried.raises = "TimeoutError"
  /\ retried.attempts = MaxRetries
  /\ retried.sleeps = BackoffDelays

\* C14: in an iteration whose submission failed (queue_prompt returned None),
\* the failure was shown by inkex.errormsg, exactly one submit request was
\* made, and no history request, no image fetch and no insertion is made: the
\* document holds only the elements of the earlier iterations.
C14_FailedSubmitStops ==
  (calls.prompt > 0 /\ prompt_id = "None") =>
    /\ "queue_prompt" \in reported
    /\ calls.prompt = 1
    /\ calls.history = 0
    /\ calls.view = 0
    /\ Len(inserted) = i
    /\ pc \in {"insert", "finally", "done"}

C14_Witness ==
  /\ pc = "done"
  /\ calls.prompt = 1
  /\ prompt_id = "None"
  /\ "queue_prompt" \in reported
  /\ error = "AttributeError"
  /\ i = 1
  /\ Len(inserted) = 1

\* An upload response the client takes for a failure: no response, a 4xx or
\* 5xx status, or a 200 body that is not JSON or has no name.
UploadFailed ==
  /\ uploaded # NoUpload
  /\ \/ uploaded.status = 0
     \/ uploaded.status >= 400
     \/ (uploaded.status = 200 /\ (~uploaded.json \/ ~uploaded.has_name))

\* The iteration has met an error: an exception left the try block, or the
\* submission failed and queue_prompt returned None.
ErrorSeen == error # "None" \/ (calls.prompt > 0 /\ prompt_id = "None")

PadStep == \E kind \in PadKinds : Padded(kind)
UploadStep == calls'.upload > calls.upload
SubmitStep == calls'.prompt > calls.prompt
PollStep == calls'.history > calls.history
FetchStep == calls'.view > calls.view \/ (result' # result /\ result' # NoResult)
InsertStep == inserted' # inserted

C17_TempdirRemoved ==
  /\ pc = "done" => tempdir # "exists"
  /\ (pc = "done" /\ tempdir = "None") => (error # "None" /\ workflow_json = <<>>)
  /\ pc \notin {"begin", "done"} => tempdir = "exists"

C17_Witness ==
  /\ pc = "done"
  /\ tempdir = "removed"
  /\ error = "JSONDecodeError"
  /\ i = 1
  /\ calls.history > 0

\* A required parameter is missing, or nothing is selected for a variant other
\* than basic.
ParameterMissing ==
  \/ options.positive_prompt = ""
  \/ options.negative_prompt = ""
  \/ options.workflow_json_path = ""
  \/ options.api_url \in {"", " "}
SelectionMissing == svg.selection = {} /\ options.workflow_select # "basic"

\* C18: with a required parameter missing, or with nothing selected for a
\* variant other than basic, effect shows the error, raises ValueError and
\* ends before the temporary directory is made and before any upload, submit,
\* history or fetch request.
C18_ConfigErrorAborts ==
  (ParameterMissing \/ SelectionMissing) =>
    /\ pc \in {"begin", "done"}
    /\ calls = NoCalls
    /\ uploaded = NoUpload
    /\ inserted = <<>>
    /\ pc = "done" => /\ error = "ValueError"
                      /\ "validate_parameters" \in reported
                      /\ tempdir = "None"
                      /\ workflow_json = <<>>

C18_Witness ==
  /\ pc = "done"
  /\ ~ParameterMissing
  /\ SelectionMissing
  /\ options.workflow_select = "masked"
  /\ error = "ValueError"
  /\ "validate_parameters" \in reported
  /\ calls = NoCalls

\* C19 as stated: in an iteration that uploaded no main image, the crop step
\* takes its geometry from the result (side max(w, h), offsets 0), crops the
\* whole square and does not fail. Refuted when the image slot's ID is above 0
\* and absent from the graph: nothing was padded, the crop still divides by
\* the recorded side, which is 0.
C19_NoInputCropsNothing ==
  [][(pc = "insert" /\ result.path # "None" /\ pads.image = NoPad) =>
       LET side == Max(result.w, result.h) IN
         /\ error' = "None"
         /\ crop_box' = <<0, 0, side, side>>
         /\ geom' = [longest_side |-> side, exported_width |-> result.w,
                     exported_height |-> result.h]]_vars

\* A canvas no smaller than its source, the source pasted at or after the
\* origin, and the canvas's side equal to one of the source's sides.
FitsSource(p) ==
  /\ p.side >= p.w /\ p.side >= p.h
  /\ p.x >= 0 /\ p.y >= 0
  /\ p.side \in {p.w, p.h}

\* C20 as stated: every pad, of the main image, a mask or a pose, has
\* offsets that are not negative and a canvas side equal to the source's
\* width or height. Refuted for a mask or pose, whose canvas has the main
\* image's side.
C20_EveryPadFitsSource ==
  [][\A kind \in PadKinds : Padded(kind) => FitsSource(pads'[kind])]_vars

\* C20: a pad of the main image has offsets that are not negative and a
\* canvas side equal to the source's width or height, to both exactly when
\* the source is square. A pad of a mask or pose has the side recorded before
\* the call; its offset along an axis is not negative when the source is no
\* longer than that side, and the source is pasted before the origin when it
\* is longer by two or more.
C20_MainPadFitsSource ==
  [][\A kind \in PadKinds :
       Padded(kind) =>
         LET p == pads'[kind] IN
           IF kind = "image"
           THEN /\ FitsSource(p)
                /\ (p.side = p.w /\ p.side = p.h) <=> (p.w = p.h)
           ELSE /\ p.side = geom.longest_side
                /\ (p.w <= p.side => p.x >= 0) /\ (p.w >= p.side + 2 => p.x < 0)
                /\ (p.h <= p.side => p.y >= 0) /\ (p.h >= p.side + 2 => p.y < 0)]_vars

C20_Witness ==
  /\ pads.image # NoPad
  /\ pads.image.w # pads.image.h
  /\ pads.image.side = pads.image.h
  /\ pads.mask # NoPad
  /\ pads.mask.w >= pads.mask.side + 2
  /\ pads.mask.x < 0
  /\ pads.mask.side \notin {pads.mask.w, pads.mask.h}

\* int(x * r) for x = x2 / 2 and r = width / side, in exact arithmetic.
TruncOfProduct(x2, width, side) == (x2 * width) \div (2 * side)

\* C21 as stated: when the main image was padded, the crop of a result of
\* width Wr is the rectangle whose corners are the truncations of offsetX * r,
\* offsetY * r, (canvasSide - offsetX) * r and (canvasSide - offsetY) * r with
\* r = Wr / canvasSide. Refuted where the float product falls just short of a
\* whole number: an 11x11 source and a 15x15 result give the corner 14, not 15.
C21_CropIsTruncatedScale ==
  [][(pc = "insert" /\ pads.image # NoPad /\ crop_box' # crop_box) =>
       LET side == pads.image.side
           offset_x2 == side - pads.image.w
           offset_y2 == side - pads.image.h
       IN crop_box' = << TruncOfProduct(offset_x2, result.w, side),
                         TruncOfProduct(offset_y2, result.w, side),
                         TruncOfProduct(2 * side - offset_x2, result.w, side),
                         TruncOfProduct(2 * side - offset_y2, result.w, side) >>]_vars

\* The output nodes of the history record that hold at least one image, by
\* their place in the record, and the number of image entries in all of them.
NodesWithImages ==
  {k \in 1..Len(history.images) :
     history.images[k].has_images /\ history.images[k].images # <<>>}
FirstNodeWithImages ==
  CHOOSE k \in NodesWithImages : \A j \in NodesWithImages : k <= j
RECURSIVE CountImages(_)
CountImages(k) ==
  IF k = 0 THEN 0
  ELSE CountImages(k - 1)
         + (IF history.images[k].has_images THEN Len(history.images[k].images) ELSE 0)

\* C22: when the handle has appeared and every fetch succeeds, one fetch is
\* made for each image entry of each output node, and the raster written as
\* the result is the first entry of the first output node that has any; it is
\* the one still held when the result is inserted.
C22_FirstImageIsResult ==
  /\ [][(pc = "collect" /\ pc' = "insert") =>
          /\ history.has_key
          /\ calls'.view = calls.view + CountImages(Len(history.images))
          /\ NodesWithImages # {}
          /\ result'.path = history.images[FirstNodeWithImages].images[1]]_vars
  /\ [][pc = "insert" => result' = result]_vars

C22_Witness ==
  /\ pc = "loop"
  /\ inserted # <<>>
  /\ calls.view = 2
  /\ result.path = "a.png"

\* The indexes of the elements inserted so far are 0, 1, ... in order.
InsertedInOrder == \A k \in 1..Len(inserted) : inserted[k].index = k - 1

\* C23: a job is submitted only when every earlier iteration has inserted its
\* result and this iteration has not submitted yet; a result is inserted only
\* after this iteration's one submit, with the handle seen in the history and
\* its images fetched, and under the loop's index; the requests of an
\* iteration are counted anew only at the head of the loop; and a run that
\* ends without an error has made --batch insertions, with indexes 0 to
\* batch - 1 in order.
C23_OneJobAtATime ==
  /\ [][SubmitStep =>
          (calls.prompt = 0 /\ prompt_id = "None" /\ Len(inserted) = i)]_vars
  /\ [][InsertStep =>
          /\ calls.prompt = 1 /\ prompt_id # "None"
          /\ history.has_key /\ calls.view >= 1
          /\ Len(inserted) = i
          /\ Len(inserted') = i + 1 /\ inserted'[i + 1].index = i
          /\ i' = i + 1]_vars
  /\ [][calls'.prompt < calls.prompt => pc = "loop" /\ Len(inserted) = i]_vars
  /\ [](InsertedInOrder /\ Len(inserted) <= options.batch)
  /\ []((pc = "done" /\ error = "None") =>
          (i = options.batch /\ Len(inserted) = options.batch))

C23_Witness ==
  /\ pc = "done"
  /\ error = "None"
  /\ Len(inserted) >= 2
  /\ inserted[2].index = 1

\* The one answer this run's server gives to POST /prompt, and the answers
\* with which urlopen or json.loads raises.
SubmitAnswer == CHOOSE r \in server.submit : TRUE
SubmitRaises == {"URLError", "Exception", "JSONDecodeError"}

\* C24: a call of the client's queue_prompt makes exactly one request, to
\* /prompt, and none to the other endpoints; on a JSON answer it raises
\* nothing and returns the answer, with the server's prompt_id when the answer
\* has one; when the request or the parse raises, that exception leaves the
\* call as it is, nothing is returned, nothing is retried and no message is
\* shown.
C24_QueuePromptOnce ==
  [][(i' = i + 1 /\ pc' = "queue_prompt") =>
       /\ calls' = [calls EXCEPT !.prompt = @ + 1]
       /\ retried' = retried /\ reported' = reported
       /\ IF SubmitAnswer \in SubmitRaises
          THEN error' = SubmitAnswer /\ prompt_id' = "None"
          ELSE /\ error' = "None"
               /\ prompt_id' = "job" <=> SubmitAnswer = "ok"]_vars

C24_Witness ==
  /\ pc = "queue_prompt"
  /\ i = 2
  /\ calls.prompt = 2
  /\ server.submit = {"Exception"}
  /\ error = "Exception"

\* C25: a call of load_image with a path that names no file raises
\* FileNotFoundError and sends no request, to the upload endpoint or any
\* other; with a file there it sends exactly one upload request.
C25_MissingImageNoUpload ==
  [][(i' = i + 1 /\ pc' = "load_image") =>
       IF options.image_path \notin FilesOnDisk
       THEN error' = "FileNotFoundError" /\ calls' = calls /\ uploaded' = NoUpload
       ELSE /\ calls' = [calls EXCEPT !.upload = @ + 1]
            /\ error' # "FileNotFoundError"]_vars

C25_Witness ==
  /\ pc = "load_image"
  /\ options.image_path = "/invalid/path/to/image.png"
  /\ error = "FileNotFoundError"
  /\ i = 2
  /\ calls.upload = 0

\* The graph a JSON file's text denotes: one node per member name, the node of
\* the last member of that name.
DenotedBy(graph, members) ==
  /\ DOMAIN graph = {members[k][1] : k \in 1..Len(members)}
  /\ \A k \in 1..Len(members) :
       (\A j \in (k + 1)..Len(members) : members[j][1] # members[k][1])
         => graph[members[k][1]] = members[k][2]

\* C26: load_workflow on a file that exists and holds JSON raises nothing and
\* returns the mapping from node-ID to node that the file's text denotes; on a
\* path that names no file it raises FileNotFoundError, the graph held before
\* is as it was and no request is made. Neither case makes a request.
C26_LoadWorkflowFile ==
  [][(i' = i + 1 /\ pc' = "load_workflow") =>
       LET path == options.workflow_json_path IN
         /\ calls' = calls
         /\ (path \in FilesOnDisk /\ IsJson(path)) =>
              (error' = "None" /\ DenotedBy(workflow_json', FileMembers(path)))
         /\ path \notin FilesOnDisk =>
              (error' = "FileNotFoundError" /\ workflow_json' = workflow_json)]_vars

C26_Witness ==
  /\ pc = "load_workflow"
  /\ options.workflow_json_path = "/invalid/path/to/workflow.json"
  /\ error = "FileNotFoundError"
  /\ workflow_json = <<>>
  /\ calls.prompt = 1
  /\ calls.upload + calls.history + calls.view = 0

\* C27 as stated: between any two consecutive history polls of one iteration
\* a 1-second sleep occurs, that is, every poll but the first is made after as
\* many sleeps as polls before it. Refuted by the second poll: the first is
\* made before the loop and the loop polls before it sleeps.
C27_SleepBetweenAllPolls ==
  [][PollStep => calls.sleep = calls.history]_vars

\* C27: every poll made inside the loop that returns is followed at once by
\* one sleep, also the poll that found the handle; the first poll, made before
\* the loop, is followed by the loop's test and, without the handle, by the
\* second poll with no sleep between them; from the second poll on, one sleep
\* lies between consecutive polls.
C27_SleepAfterLoopPolls ==
  /\ [][(PollStep /\ pc = "poll" /\ error' = "None") => pc' = "sleep"]_vars
  /\ [][pc = "sleep" => (pc' = "poll" /\ calls'.sleep = calls.sleep + 1
                           /\ calls'.history = calls.history)]_vars
  /\ [][(PollStep /\ pc = "history" /\ error' = "None") =>
          (pc' = "poll" /\ calls'.sleep = 0)]_vars
  /\ [][PollStep =>
          calls.sleep = (IF calls.history <= 1 THEN 0 ELSE calls.history - 1)]_vars

C27_Witness ==
  /\ pc = "collect"
  /\ calls.history = 3
  /\ calls.sleep = 2
  /\ history.has_key

\* The poll loop and its sleep, and a job the history will never list.
Polling == pc \in {"poll", "sleep"}
NeverListed == pending = Never

\* C28: the poll loop has no way out of its own. While the history never
\* lists the job, the loop is left only when a request to the history has used
\* up its retries; without that the run polls again and again and never ends.
\* A job that is listed after some polls leaves the loop, and when every job
\* is, the run ends: with --batch results inserted unless an error ended it,
\* which in these runs is a missing or broken workflow file or the retries of
\* a request used up.
C28_PollLoopUnbounded ==
  /\ [][(Polling /\ NeverListed) =>
          \/ Polling'
          \/ /\ pc' = "finally" /\ error' = "TimeoutError"
             /\ retried'.raises = "TimeoutError" /\ retried'.attempts = MaxRetries]_vars
  /\ ([](error # "TimeoutError") /\ <>(Polling /\ NeverListed)) =>
        ([](pc # "done") /\ []<>(pc = "sleep"))
  /\ (Polling /\ ~NeverListed) ~> ~Polling
  /\ [](~NeverListed) =>
        <>(pc = "done" /\ (error = "None" => Len(inserted) = options.batch))
  /\ [](pc = "done" =>
          error \in {"None", "TimeoutError", "FileNotFoundError", "JSONDecodeError"})

C28_Witness ==
  /\ pc = "sleep"
  /\ NeverListed
  /\ calls.history = PollCap
  /\ calls.sleep = PollCap
  /\ error = "None"

\* C29 as stated: a network error on an upload, a history poll or an image
\* fetch is retried, so that such a request ends the run only with the
\* TimeoutError of retries used up. Refuted for the upload and the fetch: their
\* first network error ends the run, as RequestException and URLError.
C29_NetworkErrorsRetried ==
  [][/\ (UploadStep /\ uploaded'.status = 0) => error' \in {"None", "TimeoutError"}
     /\ calls'.view > calls.view => error' \in {"None", "TimeoutError"}
     /\ PollStep =>
          /\ error' # "URLError"
          /\ error' = "TimeoutError" => retried'.attempts = MaxRetries]_vars

AfterPopulate == pc \in {"queue", "history", "poll", "sleep", "collect", "insert"}

CanDraw(s) ==
  ENABLED (PwSampler /\ workflow_json'[SlotNode("ksampler_id")].inputs.seed = s)

\* C32: with a seed option that is not above 0, the sampler write of every
\* iteration, the first or a later one, can draw each value of randint's
\* range whatever seed the graph holds from before, and writes its draw into
\* the sampler node; the rest of the iteration, the submit included, is
\* entered only through that write, and nothing changes the graph after it.
C32_FreshSeedEachIteration ==
  /\ []((pc = "pw_sampler" /\ options.seed <= 0
          /\ SlotNode("ksampler_id") \in DOMAIN workflow_json) =>
          \A s \in RandInt(0, RandSeedHigh) : CanDraw(s))
  /\ [][(pc = "pw_sampler" /\ options.seed <= 0 /\ error' = "None") =>
          workflow_json'[SlotNode("ksampler_id")].inputs.seed
            \in RandInt(0, RandSeedHigh)]_vars
  /\ [][pc' = "pw_image" => (pc = "pw_sampler" /\ error' = "None")]_vars
  /\ [][pc' \in {"pw_mask", "pw_pose", "queue"} =>
          pc \in {"pw_image", "pw_mask", "pw_pose"}]_vars
  /\ [][SubmitStep => pc = "queue"]_vars
  /\ [][(AfterPopulate \/ pc \in {"pw_image", "pw_mask", "pw_pose"}) =>
          workflow_json'[SlotNode("ksampler_id")]
            = workflow_json[SlotNode("ksampler_id")]]_vars

C32_Witness ==
  /\ pc = "history"
  /\ i = 1
  /\ options.seed = 0
  /\ Len(inserted) = 1
  /\ inserted[1].metadata.seed = RandSeedHigh
  /\ workflow_json[SlotNode("ksampler_id")].inputs.seed = 0

\* The geometry a pad of the main image records: the canvas side and the
\* source's width and height.
RecordedBy(p) ==
  [longest_side |-> p.side, exported_width |-> p.w, exported_height |-> p.h]

\* C33: the pad of the main image records its canvas side and source size; a
\* pad of a mask or a pose leaves the recorded geometry as it was; from the
\* main pad to the end of the iteration the recorded geometry stays the one
\* of that pad, and the crop of that iteration computes its box from exactly
\* that side, width and height.
C33_CropUsesMainPadGeometry ==
  /\ [][Padded("image") => geom' = RecordedBy(pads'.image)]_vars
  /\ [][(Padded("mask") \/ Padded("pose") \/ pc \in {"pw_mask", "pw_pose"}) =>
          geom' = geom]_vars
  /\ [](pads.image # NoPad => geom = RecordedBy(pads.image))
  /\ [][(InsertStep /\ pads.image # NoPad) =>
          LET p == pads.image
              offset_x2 == p.side - p.w
              offset_y2 == p.side - p.h
          IN crop_box' = << ScaleInt(offset_x2, result.w, p.side),
                            ScaleInt(offset_y2, result.w, p.side),
                            ScaleInt(2 * p.side - offset_x2, result.w, p.side),
                            ScaleInt(2 * p.side - offset_y2, result.w, p.side) >>]_vars

C33_Witness ==
  /\ pc = "loop"
  /\ i = 2
  /\ Len(inserted) = 2
  /\ pads.image # NoPad
  /\ pads.mask # NoPad
  /\ Max(pads.mask.w, pads.mask.h) > pads.image.side
  /\ pads.image.w < pads.image.h
  /\ crop_box # NoBox
  /\ crop_box[3] - crop_box[1] < crop_box[4] - crop_box[2]

\* The option that names the node of each kind of input image.
InputSlot == [image |-> "image_input_id", mask |-> "mask_input_id",
              pose |-> "pose_input_id"]

\* C34: when an upload is answered with status 200 and a body that has a
\* name, the path returned, which the caller stores in the node's image field,
\* is subfolder/name when the body has a subfolder that is not the empty
\* string, and name alone when it has no subfolder or an empty one.
C34_UploadedPath ==
  [][\A kind \in PadKinds :
       (/\ Padded(kind)
        /\ UploadStep
        /\ uploaded'.status = 200
        /\ uploaded'.json
        /\ uploaded'.has_name) =>
          /\ error' = "None"
          /\ workflow_json'[SlotNode(InputSlot[kind])].inputs.image =
               IF uploaded'.has_subfolder /\ uploaded'.subfolder # ""
               THEN uploaded'.subfolder \o "/" \o uploaded'.name
               ELSE uploaded'.name]_vars

C34_Witness ==
  /\ pc = "queue"
  /\ workflow_json[SlotNode("image_input_id")].inputs.image = "in/up.png"
  /\ workflow_json[SlotNode("mask_input_id")].inputs.image = "up.png"
  /\ uploaded.has_subfolder
  /\ uploaded.subfolder = ""

\* C35 as stated: for every variant of the selector get_workflow_path returns
\* the path configured for that variant and raises nothing, so no run ends at
\* its first call, the one in validate_parameters. Refuted by custom2, whose
\* branch reads options.custom_workflow_json_path: no such option is defined
\* and the read raises AttributeError.
C35_EveryVariantHasItsPath ==
  /\ [](options.workflow_select \in Variants =>
          /\ get_workflow_path.raises = "None"
          /\ get_workflow_path.v = options.workflow_json_path)
  /\ [][pc = "begin" => error' # "AttributeError"]_vars

\* C36 as stated: of the selected objects, get_pose_objects returns exactly
\* those whose id has the pose mark, get_mask_objects (when it returns a list)
\* exactly those with the mask mark, and get_image_objects exactly those with
\* neither. Refuted for the pose objects: get_pose_objects tests the mask
\* mark, so it returns the mask objects and never a pose object.
C36_SelectionSplitByRole ==
  /\ get_pose_objects = {id \in svg.selection : HasPoseMark(id)}
  /\ get_workflow_option("mask_input_id") # [isNone |-> FALSE, v |-> 0] =>
       get_mask_objects = {id \in svg.selection : HasMaskMark(id)}
  /\ get_image_objects =
       {id \in svg.selection : ~HasMaskMark(id) /\ ~HasPoseMark(id)}

\* The history record of the job holds no image entry: outputs is empty or no
\* output node has images.
NoImageEntry == \A k \in 1..Len(history.images) : ~history.images[k].has_images

\* C37: when the history record of the job holds no image entry, collecting
\* the result makes no fetch and raises IndexError, which sends the run to its
\* finally clause; from then on nothing is inserted, the batch index stays and
\* no request of any kind is made, so no later iteration runs.
C37_NoImageEndsRun ==
  /\ [][(pc = "collect" /\ NoImageEntry) =>
          /\ error' = "IndexError"
          /\ pc' = "finally"
          /\ calls' = calls
          /\ result' = NoResult
          /\ inserted' = inserted]_vars
  /\ [][error = "IndexError" =>
          /\ pc' \in {"finally", "done"}
          /\ error' = error
          /\ i' = i
          /\ calls' = calls
          /\ inserted' = inserted]_vars
  /\ [](error = "IndexError" => Len(inserted) = i /\ pc \in {"finally", "done"})

C37_Witness ==
  /\ pc = "done"
  /\ error = "IndexError"
  /\ options.batch = 2
  /\ i = 0
  /\ inserted = <<>>
  /\ history.has_key
  /\ Len(history.images) = 1
  /\ calls.prompt = 1
  /\ calls.view = 0

\* The grid cell of batch index index: (index % columns, int(index / columns)).
GridCell(index) == << index % options.columns, IntDiv(index, options.columns) >>

\* C38: with columns >= 1, gap >= 0 and dimensions that are not 0, any two
\* elements inserted in one run for different batch indices lie in different
\* grid cells, each with a column from 0 to columns - 1, and, their
\* dimensions being the same, at different offsets from the base position.
C38_PlacementInjective ==
  \A j, k \in 1..Len(inserted) :
    LET a == inserted[j]
        b == inserted[k]
    IN (/\ j # k
        /\ options.columns >= 1
        /\ options.gap >= 0
        /\ a.dimensions[1] # 0 /\ a.dimensions[2] # 0) =>
         /\ a.index # b.index
         /\ GridCell(a.index) # GridCell(b.index)
         /\ GridCell(a.index)[1] \in 0..(options.columns - 1)
         /\ OffsetOf(a) = << a.dimensions[1] * GridCell(a.index)[1]
                                * (100 + options.gap),
                             a.dimensions[2] * GridCell(a.index)[2]
                                * (100 + options.gap) >>
         /\ a.dimensions = b.dimensions => OffsetOf(a) # OffsetOf(b)

C38_Witness ==
  /\ Len(inserted) = 6
  /\ options.columns = 4
  /\ options.gap = 1
  /\ ~UsesImageInput
  /\ inserted[1].dimensions = <<4, 4>>
  /\ OffsetOf(inserted[1]) = <<0, 0>>
  /\ OffsetOf(inserted[5]) = <<0, 404>>
  /\ OffsetOf(inserted[6]) = <<404, 404>>

====
